---- MODULE Spec2Model ----
(***************************************************************************)
(* Model of the intercom endpoint of esphome_components/intercom_api:      *)
(* the call FSM (call_state_), the transport view (state_), the single     *)
(* peer session (client_.socket, client_.streaming), the control commands  *)
(* (start, stop, answer_call, decline_call, call_toggle, connect_to,       *)
(* disconnect, loop) and the net task's steps (accept, connect, receive    *)
(* and dispatch, disconnect).                                              *)
(*                                                                         *)
(* Spec      : every handler is one atomic action.                         *)
(* SpecTasks : the teardown paths of the control task and the net task and *)
(*             the speaker task run as interleaved steps.                  *)
(* SpecWire  : the bytes that send_message_ and tx_task_ put on the socket.*)
(* SpecRecv  : receive_message_ reassembling one frame from partial reads.  *)
(* SpecDuplex: the mic and speaker wrappers of i2s_audio_duplex (listener   *)
(*             semaphore, start, stop, loop), with loop() scheduled fairly. *)
(* SpecAec   : the frame accumulator of tx_task_ when AEC is enabled.       *)
(* SpecRef   : the AEC reference ring between the playback task, the TX    *)
(*             task and the reset at call start.                            *)
(* SpecRace  : SpecTasks for inbound calls, with a received START handled   *)
(*             as a later step and the TX task's load-then-send.            *)
(*                                                                         *)
(* A "send" entry of trace records a frame handed to send_message_ (or to  *)
(* send) on a valid descriptor; callers ignore the return value.           *)
(***************************************************************************)
EXTENDS Integers, Sequences, FiniteSets, TLC

\* ---- bounds ----
MaxPeers == 2
MaxTime == 2
RingTimeout == 2
\* PING_INTERVAL_MS, in ticks of the model clock
PingInterval == 1

\* ---- program constants ----
NoSock == -1
DialFd == 0
ListenBacklog == 1
\* sizeof(MessageHeader)
HEADER_SIZE == 4
MAX_AUDIO_CHUNK == 2048
MAX_MESSAGE_SIZE == HEADER_SIZE + MAX_AUDIO_CHUNK + 64
\* values of the 16-bit header.length a peer may announce
HeaderLengths == {0, 512, MAX_MESSAGE_SIZE - HEADER_SIZE, MAX_MESSAGE_SIZE - HEADER_SIZE + 1, 65535}

\* receive_message_: the length check against the caller's buffer
too_large(length, buffer_size) == length > buffer_size - HEADER_SIZE

Peers == 1..MaxPeers

CallStates == {"IDLE", "OUTGOING", "INCOMING", "RINGING", "ANSWERING", "STREAMING"}
ConnectionStates == {"DISCONNECTED", "CONNECTING", "CONNECTED", "STREAMING"}
MessageTypes == {"AUDIO", "START", "STOP", "PING", "PONG", "ERROR", "RING", "ANSWER"}
\* the types a peer sends whose handling takes no further input
PlainTypes == {"PING", "PONG", "ERROR", "ANSWER"}

VARIABLES
  call_state_,            \* CallState call_state_
  state_,                 \* ConnectionState state_
  client_socket,          \* client_.socket (atomic<int>), NoSock when none
  client_streaming,       \* client_.streaming (atomic<bool>)
  active_,                \* atomic<bool> active_
  client_mode_,
  auto_answer_,
  pending_incoming_call_,
  ringing_timeout_ms_,
  ringing_start_time_,
  outgoing_start_time_,
  last_ping,              \* client_.last_ping
  open_fds,               \* descriptors returned by accept()/socket() and not yet closed
  now,                    \* millis()
  backlog,                \* connections waiting on the listening socket
  mic_running,            \* microphone_source_ started
  spk_running,            \* speaker_ started
  trace,                  \* what the last handler did, in order
  last_op,                \* the last handler that ran
  speaker_stop_requested_,  \* atomic<bool>
  speaker_stopped_sem_,   \* binary semaphore: 1 when given
  pc,                     \* per task: the steps left of the handler it is in
  t_sock,                 \* per task: the local sock of close_client_socket_
  spk_pc,                 \* the speaker task's position in its loop
  ends,                   \* reasons of the end events since the FSM last left Idle
  sink_stop_callers,      \* the tasks that have called speaker_->stop()
  closers,                \* <<task, fd>>: who closed the installed descriptor
  wire,                   \* the bytes handed to the socket, in order: <<frame, index>>
  send_mutex_,            \* the task holding send_mutex_, or "none"
  offset,                 \* per task in send_message_: bytes of its frame sent so far
  frame,                  \* per task in send_message_: the frame it is sending
  frames,                 \* the number of frames begun
  rx,                     \* receive_message_: its locals, the socket's stream, the buffer
  dx,                     \* the I2S duplex wrappers: semaphore count, state_, the bus
  aec,                    \* tx_task_ with AEC: the accumulator and what was done with it
  rf,                     \* spk_ref_buffer_: what it holds, what was played, what was read
  tx                      \* tx_task_: where it is in an iteration, the descriptor it loaded

vars == <<call_state_, state_, client_socket, client_streaming, active_,
          client_mode_, auto_answer_, pending_incoming_call_,
          ringing_timeout_ms_, ringing_start_time_, outgoing_start_time_,
          last_ping, open_fds, now, backlog, mic_running, spk_running, trace, last_op,
          speaker_stop_requested_, speaker_stopped_sem_, pc, t_sock, spk_pc,
          ends, sink_stop_callers, closers, wire, send_mutex_, offset, frame, frames,
          rx, dx, aec, rf, tx>>

\* the variables of the specifications of single functions
AuxVars == <<rx, dx, aec, rf, tx>>

\* the variables only the byte-level specification moves
WireVars == <<wire, send_mutex_, offset, frame, frames>>

\* the variables the atomic handlers leave alone
TaskVars == <<speaker_stopped_sem_, pc, t_sock, spk_pc, ends, sink_stop_callers, closers,
              WireVars, AuxVars>>

Tasks == {"ctl", "net"}

\* ---- trace entries ----
Ev(k, a, r, fd) == [k |-> k, a |-> a, r |-> r, fd |-> fd]
Log(s, e) == [s EXCEPT !.trace = Append(@, e)]

\* now - start on uint32 millis(); the clock runs 0..MaxTime and start <= now
USub(a, b) == a - b

\* The handler-local view of the object: the fields a handler reads and writes.
St == [call_state_ |-> call_state_, state_ |-> state_, socket |-> client_socket,
       streaming |-> client_streaming, active_ |-> active_,
       ringing_start_time_ |-> ringing_start_time_,
       outgoing_start_time_ |-> outgoing_start_time_,
       last_ping |-> last_ping,
       mic_running |-> mic_running, spk_running |-> spk_running,
       speaker_stop_requested_ |-> speaker_stop_requested_,
       trace |-> <<>>]

\* ---- helpers (intercom_api.cpp) ----

send_message_(s, sock, type) ==
  IF sock < 0 THEN s ELSE Log(s, Ev("send", type, "", sock))

StateTrigger(st) ==
  CASE st = "IDLE" -> "idle"
    [] st = "OUTGOING" -> "outgoing_call"
    [] st = "INCOMING" -> "incoming_call"
    [] st = "RINGING" -> "ringing"
    [] st = "ANSWERING" -> "answered"
    [] st = "STREAMING" -> "streaming"

set_call_state_(s, new_state) ==
  IF s.call_state_ = new_state THEN s
  ELSE Log([s EXCEPT !.call_state_ = new_state],
           Ev("trigger", StateTrigger(new_state), "", NoSock))

FailureReasons == {"unreachable", "busy", "protocol_error", "bridge_error"}

end_call_(s, reason) ==
  IF s.call_state_ = "IDLE" THEN s
  ELSE LET s1 == Log(s, Ev("end", IF reason \in FailureReasons THEN "call_failed"
                                   ELSE "hangup", reason, NoSock))
           s2 == Log(s1, Ev("trigger", "call_end", "", NoSock))
           s3 == Log(s2, Ev("trigger", "stop", "", NoSock))
       IN set_call_state_(s3, "IDLE")

\* ack: the speaker task gave speaker_stopped_sem_ within 200 ms
set_active_(s, on, ack) ==
  IF s.active_ = on THEN s
  ELSE IF on
       THEN Log([s EXCEPT !.active_ = TRUE, !.speaker_stop_requested_ = FALSE,
                          !.mic_running = TRUE, !.spk_running = TRUE],
                Ev("trigger", "start", "", NoSock))
       ELSE LET s1 == Log([s EXCEPT !.active_ = FALSE, !.spk_running = FALSE],
                          Ev("sink_stop", IF ack THEN "speaker_task" ELSE "caller",
                             "", NoSock))
                s2 == Log([s1 EXCEPT !.mic_running = FALSE],
                          Ev("mic_stop", "", "", NoSock))
            IN Log(s2, Ev("trigger", "stop", "", NoSock))

\* the rings are reset under mic_mutex_ / speaker_mutex_, each taken within 20 ms
\* (the handlers run while no other task holds them)
reset_buffers_(s) ==
  LET s1 == Log(s, Ev("reset", "mic_buffer", "", NoSock))
      s2 == Log(s1, Ev("reset", "speaker_buffer", "", NoSock))
  IN Log(s2, Ev("reset", "aec", "", NoSock))

set_streaming_(s, on) ==
  LET s1 == Log([s EXCEPT !.streaming = on,
                          !.state_ = IF on THEN "STREAMING" ELSE "CONNECTED"],
                Ev("store_streaming", IF on THEN "true" ELSE "false", "", NoSock))
  IN IF on THEN set_call_state_(reset_buffers_(s1), "STREAMING") ELSE s1

close_client_socket_(s) ==
  LET s1 == Log([s EXCEPT !.streaming = FALSE],
                Ev("store_streaming", "false", "", NoSock))
      sock == s.socket
      s2 == [s1 EXCEPT !.socket = NoSock]
  IN IF sock >= 0
     THEN Log(send_message_(s2, sock, "STOP"), Ev("close", "", "", sock))
     ELSE s2

is_ringing(s) ==
  /\ s.state_ = "CONNECTED"
  /\ s.socket >= 0
  /\ ~s.streaming
  /\ pending_incoming_call_

is_active(s) == s.call_state_ \in {"STREAMING", "ANSWERING", "OUTGOING"}

\* ---- control commands ----

\* start() without outgoing_start_time_ = millis()
start_nostamp(s) ==
  IF s.call_state_ # "IDLE" THEN s
  ELSE LET s1 == set_active_(s, TRUE, TRUE)
           s2 == set_call_state_(s1, "OUTGOING")
           s4 == Log(s2, Ev("notify", "server_task", "", NoSock))
           s5 == Log(s4, Ev("notify", "tx_task", "", NoSock))
       IN Log(s5, Ev("notify", "speaker_task", "", NoSock))

start(s) ==
  IF s.call_state_ # "IDLE" THEN s
  ELSE LET s1 == set_active_(s, TRUE, TRUE)
           s2 == set_call_state_(s1, "OUTGOING")
           s3 == [s2 EXCEPT !.outgoing_start_time_ = now]
           s4 == Log(s3, Ev("notify", "server_task", "", NoSock))
           s5 == Log(s4, Ev("notify", "tx_task", "", NoSock))
       IN Log(s5, Ev("notify", "speaker_task", "", NoSock))

\* stop() without close_client_socket_()
stop_noclose(s, ack) ==
  IF ~s.active_ /\ s.call_state_ = "IDLE" THEN s
  ELSE LET s1 == send_message_(s, s.socket, "STOP")
           s2 == set_active_(s1, FALSE, ack)
           s4 == [s2 EXCEPT !.state_ = "DISCONNECTED"]
       IN end_call_(s4, "local_hangup")

\* stop() that also clears the session's keep-alive stamp
stop_stamp(s, ack) ==
  IF ~s.active_ /\ s.call_state_ = "IDLE" THEN s
  ELSE LET s1 == send_message_(s, s.socket, "STOP")
           s2 == set_active_(s1, FALSE, ack)
           s3 == close_client_socket_(s2)
           s4 == [s3 EXCEPT !.state_ = "DISCONNECTED", !.last_ping = 0]
       IN end_call_(s4, "local_hangup")

stop(s, ack) ==
  IF ~s.active_ /\ s.call_state_ = "IDLE" THEN s
  ELSE LET s1 == send_message_(s, s.socket, "STOP")
           s2 == set_active_(s1, FALSE, ack)
           s3 == close_client_socket_(s2)
           s4 == [s3 EXCEPT !.state_ = "DISCONNECTED"]
       IN end_call_(s4, "local_hangup")

answer_call(s) ==
  IF ~is_ringing(s) THEN s
  ELSE IF s.socket < 0 THEN s
  ELSE LET s1 == send_message_(s, s.socket, "ANSWER")
           s2 == set_call_state_(s1, "ANSWERING")
           s3 == set_active_(s2, TRUE, TRUE)
       IN set_streaming_(s3, TRUE)

decline_call(s) ==
  IF ~is_ringing(s) THEN s
  ELSE IF s.socket < 0 THEN s
  ELSE LET s1 == Log(s, Ev("send", "ERROR", "BUSY", s.socket))
           s2 == close_client_socket_(s1)
           s3 == [s2 EXCEPT !.state_ = "DISCONNECTED"]
       IN end_call_(s3, "declined")

call_toggle(s, ack) ==
  IF is_ringing(s) THEN answer_call(s)
  ELSE IF is_active(s) THEN stop(s, ack)
  ELSE start(s)

\* loop() with the deadlines compared by > in place of >=
loop_late(s) ==
  IF ringing_timeout_ms_ > 0
  THEN LET s1 == IF s.call_state_ = "RINGING"
                    /\ USub(now, s.ringing_start_time_) > ringing_timeout_ms_
                 THEN LET a == Log(s, Ev("log", "ringing_timeout", "", NoSock))
                          b == close_client_socket_(a)
                          c == [b EXCEPT !.state_ = "DISCONNECTED"]
                      IN end_call_(c, "timeout")
                 ELSE s
       IN IF s1.call_state_ = "OUTGOING"
             /\ USub(now, s1.outgoing_start_time_) > ringing_timeout_ms_
          THEN LET a == Log(s1, Ev("log", "outgoing_timeout", "", NoSock))
                   b == close_client_socket_(a)
                   c == [b EXCEPT !.state_ = "DISCONNECTED"]
               IN end_call_(c, "timeout")
          ELSE s1
  ELSE s

\* the timeout poll of the main loop
loop(s) ==
  IF ringing_timeout_ms_ > 0
  THEN LET s1 == IF s.call_state_ = "RINGING"
                    /\ USub(now, s.ringing_start_time_) >= ringing_timeout_ms_
                 THEN LET a == Log(s, Ev("log", "ringing_timeout", "", NoSock))
                          b == close_client_socket_(a)
                          c == [b EXCEPT !.state_ = "DISCONNECTED"]
                      IN end_call_(c, "timeout")
                 ELSE s
       IN IF s1.call_state_ = "OUTGOING"
             /\ USub(now, s1.outgoing_start_time_) >= ringing_timeout_ms_
          THEN LET a == Log(s1, Ev("log", "outgoing_timeout", "", NoSock))
                   b == close_client_socket_(a)
                   c == [b EXCEPT !.state_ = "DISCONNECTED"]
               IN end_call_(c, "timeout")
          ELSE s1
  ELSE s

\* ---- net task (server_task_) ----

\* reject_busy lambda of accept_client_
reject_busy(s, fd) ==
  Log(Log(s, Ev("send", "ERROR", "BUSY", fd)), Ev("close", "", "", fd))

\* accept() returned descriptor fd
accept_client_(s0, fd) ==
  LET s == Log(s0, Ev("open", "accept", "", fd))
  IN IF s.socket >= 0 THEN reject_busy(s, fd)
     ELSE IF s.call_state_ # "IDLE" /\ s.call_state_ # "OUTGOING" THEN reject_busy(s, fd)
     ELSE Log([s EXCEPT !.socket = fd, !.streaming = FALSE, !.state_ = "CONNECTED",
                        !.last_ping = now],
              Ev("trigger", "connect", "", fd))

\* client mode, no socket: one connect attempt; ok = connected within 5 s
\* a failed attempt that leaves its descriptor open
client_connect_leak(s, fd, ok) ==
  LET s1 == Log([s EXCEPT !.state_ = "CONNECTING"], Ev("open", "socket", "", fd))
  IN IF ~ok THEN s1
     ELSE LET s2 == [s1 EXCEPT !.socket = fd, !.streaming = FALSE,
                               !.state_ = "CONNECTED", !.last_ping = now]
              s3 == Log(s2, Ev("trigger", "connect", "", fd))
          IN send_message_(s3, fd, "START")

\* socket() returned descriptor fd
client_connect_on(s, fd, ok) ==
  LET s1 == Log([s EXCEPT !.state_ = "CONNECTING"], Ev("open", "socket", "", fd))
  IN IF ~ok THEN Log(s1, Ev("close", "", "", fd))
     ELSE LET s2 == [s1 EXCEPT !.socket = fd, !.streaming = FALSE,
                               !.state_ = "CONNECTED", !.last_ping = now]
              s3 == Log(s2, Ev("trigger", "connect", "", fd))
          IN send_message_(s3, fd, "START")

client_connect(s, ok) == client_connect_on(s, DialFd, ok)

\* AUDIO taken as the peer's answer in every call state but Idle
handle_audio_any(s, got) ==
  LET s1 == Log(s, Ev(IF got THEN "spk_write" ELSE "spk_skip", "", "", NoSock))
      s2 == IF s1.state_ # "STREAMING" THEN [s1 EXCEPT !.state_ = "STREAMING"] ELSE s1
  IN IF s2.call_state_ # "IDLE" THEN set_call_state_(s2, "STREAMING") ELSE s2

\* AUDIO; got: speaker_mutex_ was taken within 1 ms
handle_audio(s, got) ==
  LET s1 == Log(s, Ev(IF got THEN "spk_write" ELSE "spk_skip", "", "", NoSock))
      s2 == IF s1.state_ # "STREAMING" THEN [s1 EXCEPT !.state_ = "STREAMING"] ELSE s1
  IN IF s2.call_state_ = "OUTGOING" THEN set_call_state_(s2, "STREAMING") ELSE s2

\* START with NO_RING, entering Streaming at once through set_streaming_(true)
handle_start_no_ring_stream(s) ==
  LET s1 == [s EXCEPT !.outgoing_start_time_ = now]
      s2 == set_call_state_(s1, "OUTGOING")
      s3 == set_active_(s2, TRUE, TRUE)
      s4 == set_streaming_(s3, TRUE)
  IN send_message_(s4, s4.socket, "PONG")

\* START with NO_RING
handle_start_no_ring(s) ==
  LET s1 == [s EXCEPT !.outgoing_start_time_ = now]
      s2 == set_call_state_(s1, "OUTGOING")
      s3 == set_active_(s2, TRUE, TRUE)
      s4 == Log([s3 EXCEPT !.streaming = TRUE, !.state_ = "STREAMING"],
                Ev("store_streaming", "true", "", NoSock))
  IN send_message_(s4, s4.socket, "PONG")

\* START, auto answer on, passing through Incoming first
handle_start_auto_incoming(s) ==
  LET s0 == set_call_state_(s, "INCOMING")
      s1 == set_call_state_(s0, "ANSWERING")
      s2 == set_active_(s1, TRUE, TRUE)
      s3 == set_streaming_(s2, TRUE)
  IN send_message_(s3, s3.socket, "PONG")

\* START, auto answer on
handle_start_auto(s) ==
  LET s1 == set_call_state_(s, "ANSWERING")
      s2 == set_active_(s1, TRUE, TRUE)
      s3 == set_streaming_(s2, TRUE)
  IN send_message_(s3, s3.socket, "PONG")

\* START, auto answer off
handle_start_ring(s) ==
  LET s1 == set_call_state_(s, "INCOMING")
      s2 == [s1 EXCEPT !.state_ = "CONNECTED"]
      s3 == send_message_(s2, s2.socket, "RING")
      s4 == Log([s3 EXCEPT !.ringing_start_time_ = now],
                Ev("store_ringing_start", "", "", NoSock))
  IN set_call_state_(s4, "RINGING")

\* STOP without set_active_(false)
handle_stop_noaudio(s, ack) ==
  LET s1 == set_streaming_(s, FALSE)
      s2 == close_client_socket_(s1)
      s4 == [s2 EXCEPT !.state_ = "DISCONNECTED"]
  IN end_call_(s4, "remote_hangup")

\* STOP; ack as in set_active_
handle_stop(s, ack) ==
  LET s1 == set_streaming_(s, FALSE)
      s2 == close_client_socket_(s1)
      s3 == set_active_(s2, FALSE, ack)
      s4 == [s3 EXCEPT !.state_ = "DISCONNECTED"]
  IN end_call_(s4, "remote_hangup")

handle_pong(s0) ==
  LET s == [s0 EXCEPT !.last_ping = now]
  IN IF client_mode_ /\ s.state_ = "CONNECTED"
     THEN Log([s EXCEPT !.streaming = TRUE, !.state_ = "STREAMING"],
              Ev("store_streaming", "true", "", NoSock))
     ELSE s

\* ERROR: the code is logged, nothing else
handle_error(s) == Log(s, Ev("log", "Received ERROR", "", NoSock))

\* ANSWER taken as a remote answer in every call state but Outgoing and Idle
handle_answer_any(s) ==
  IF s.call_state_ = "OUTGOING"
  THEN LET s1 == set_streaming_(s, TRUE)
       IN send_message_(s1, s1.socket, "PONG")
  ELSE IF s.call_state_ # "IDLE"
  THEN LET s1 == set_call_state_(s, "ANSWERING")
           s2 == set_active_(s1, TRUE, TRUE)
           s3 == set_streaming_(s2, TRUE)
       IN send_message_(s3, s3.socket, "PONG")
  ELSE s

handle_answer(s) ==
  IF s.call_state_ = "OUTGOING"
  THEN LET s1 == set_streaming_(s, TRUE)
       IN send_message_(s1, s1.socket, "PONG")
  ELSE IF s.call_state_ = "RINGING"
  THEN LET s1 == set_call_state_(s, "ANSWERING")
           s2 == set_active_(s1, TRUE, TRUE)
           s3 == set_streaming_(s2, TRUE)
       IN send_message_(s3, s3.socket, "PONG")
  ELSE s

\* ack: the timed take in the handler succeeded (speaker_mutex_ for AUDIO,
\* speaker_stopped_sem_ for STOP)
handle_message_(s, type, no_ring, ack) ==
  CASE type = "AUDIO" -> handle_audio(s, ack)
    [] type = "START" ->
         IF no_ring THEN handle_start_no_ring(s)
         ELSE IF auto_answer_ THEN handle_start_auto(s)
         ELSE handle_start_ring(s)
    [] type = "STOP" -> handle_stop(s, ack)
    [] type = "PING" -> send_message_(s, s.socket, "PONG")
    [] type = "PONG" -> handle_pong(s)
    [] type = "ANSWER" -> handle_answer(s)
    [] type = "ERROR" -> handle_error(s)
    [] OTHER -> s

\* receive_message_ returned false: peer closed, hard error, oversize or incomplete
client_disconnected(s, ack) ==
  LET s1 == Log([s EXCEPT !.streaming = FALSE], Ev("store_streaming", "false", "", NoSock))
      s2 == close_client_socket_(s1)
      s3 == set_active_(s2, FALSE, ack)
      s4 == [s3 EXCEPT !.state_ = "DISCONNECTED"]
      s5 == IF s4.call_state_ # "IDLE" THEN end_call_(s4, "remote_hangup") ELSE s4
  IN Log(s5, Ev("trigger", "disconnect", "", NoSock))

\* server_task_, end of an iteration that began with a session: the keep-alive
ping_check_any(s) ==
  IF USub(now, s.last_ping) > PingInterval
  THEN [send_message_(s, s.socket, "PING") EXCEPT !.last_ping = now]
  ELSE s

ping_check(s) ==
  IF s.state_ # "STREAMING" /\ USub(now, s.last_ping) > PingInterval
  THEN [send_message_(s, s.socket, "PING") EXCEPT !.last_ping = now]
  ELSE s

\* tx_task_: one chunk handed to send(); a hard error is logged while streaming
tx_send(s, err) ==
  IF ~err THEN Log(s, Ev("send", "AUDIO", "", s.socket))
  ELSE IF s.streaming THEN Log(s, Ev("log", "TX send error", "", s.socket))
  ELSE s

\* the descriptors a handler opened and closed
Opened(tr) == {tr[i].fd : i \in {j \in 1..Len(tr) : tr[j].k = "open"}}
Closed(tr) == {tr[i].fd : i \in {j \in 1..Len(tr) : tr[j].k = "close"}}

\* ---- the state after a handler ----
Apply(r, op) ==
  /\ call_state_' = r.call_state_
  /\ state_' = r.state_
  /\ client_socket' = r.socket
  /\ client_streaming' = r.streaming
  /\ active_' = r.active_
  /\ ringing_start_time_' = r.ringing_start_time_
  /\ outgoing_start_time_' = r.outgoing_start_time_
  /\ last_ping' = r.last_ping
  /\ open_fds' = (open_fds \cup Opened(r.trace)) \ Closed(r.trace)
  /\ mic_running' = r.mic_running
  /\ spk_running' = r.spk_running
  /\ speaker_stop_requested_' = r.speaker_stop_requested_
  /\ trace' = r.trace
  /\ last_op' = op
  /\ UNCHANGED TaskVars

InitEndpoint ==
  /\ call_state_ = "IDLE"
  /\ state_ = "DISCONNECTED"
  /\ client_socket = NoSock
  /\ client_streaming = FALSE
  /\ active_ = FALSE
  /\ client_mode_ = FALSE
  /\ auto_answer_ \in BOOLEAN
  /\ pending_incoming_call_ = FALSE
  /\ ringing_timeout_ms_ \in {0, RingTimeout}
  /\ ringing_start_time_ = 0
  /\ outgoing_start_time_ = 0
  /\ last_ping = 0
  /\ open_fds = {}
  /\ now = 0
  /\ backlog = <<>>
  /\ mic_running = FALSE
  /\ spk_running = FALSE
  /\ trace = <<>>
  /\ last_op = "setup"
  /\ speaker_stop_requested_ = FALSE
  /\ speaker_stopped_sem_ = 0
  /\ pc = [t \in Tasks |-> <<>>]
  /\ t_sock = [t \in Tasks |-> NoSock]
  /\ spk_pc = "run"
  /\ ends = <<>>
  /\ sink_stop_callers = {}
  /\ closers = {}
  /\ wire = <<>>
  /\ send_mutex_ = "none"
  /\ offset = [t \in Tasks |-> 0]
  /\ frame = [t \in Tasks |-> 0]
  /\ frames = 0

\* no call of receive_message_ in progress
RxIdle == [at |-> "idle"]

\* I2SAudioDuplexMicrophone / I2SAudioDuplexSpeaker and their parent
Wrappers == {"mic", "spk"}
MAX_LISTENERS == 16

\* after setup(): every slot of the counting semaphore available, STATE_STOPPED,
\* the bus not running; listeners counts the start() calls not yet matched by stop()
DxSetup ==
  [sem |-> [w \in Wrappers |-> MAX_LISTENERS],
   state |-> [w \in Wrappers |-> "STOPPED"],
   listeners |-> [w \in Wrappers |-> 0],
   duplex_running_ |-> FALSE]

\* AEC not configured
AecOff == [at |-> "off"]

\* the reference ring before a call has seeded it
RefOff == [at |-> "off"]

\* tx_task_ at the top of its loop, no descriptor loaded
TxTop == [at |-> "top", sock |-> NoSock]

Init ==
  /\ InitEndpoint
  /\ rx = RxIdle
  /\ dx = DxSetup
  /\ aec = AecOff
  /\ rf = RefOff
  /\ tx = TxTop

Cfg == <<client_mode_, auto_answer_, pending_incoming_call_, ringing_timeout_ms_>>

\* outcomes of the 200 ms wait in set_active_(false); the wait happens only if active_
Acks == IF active_ THEN BOOLEAN ELSE {TRUE}

Start ==
  /\ Apply(start(St), "start")
  /\ UNCHANGED <<Cfg, now, backlog>>

Stop ==
  \E ack \in Acks :
    /\ Apply(stop(St, ack), "stop")
    /\ UNCHANGED <<Cfg, now, backlog>>

AnswerCall ==
  /\ Apply(answer_call(St), "answer_call")
  /\ UNCHANGED <<Cfg, now, backlog>>

DeclineCall ==
  /\ Apply(decline_call(St), "decline_call")
  /\ UNCHANGED <<Cfg, now, backlog>>

ConnectTo ==
  /\ client_mode_' = TRUE
  /\ Apply(start(St), "connect_to")
  /\ UNCHANGED <<auto_answer_, pending_incoming_call_, ringing_timeout_ms_, now, backlog>>

Disconnect ==
  \E ack \in Acks :
    /\ Apply(stop(St, ack), "disconnect")
    /\ client_mode_' = FALSE
    /\ UNCHANGED <<auto_answer_, pending_incoming_call_, ringing_timeout_ms_, now, backlog>>

Loop ==
  /\ Apply(loop(St), "loop")
  /\ UNCHANGED <<Cfg, now, backlog>>

Tick ==
  /\ now < MaxTime
  /\ now' = now + 1
  /\ Apply(St, "tick")
  /\ UNCHANGED <<Cfg, backlog>>

\* the descriptor labels not in use: neither open nor promised to a waiting connection
Unused == {p \in Peers : /\ p \notin open_fds
                          /\ p # client_socket
                          /\ \A i \in 1..Len(backlog) : backlog[i] # p}

\* a peer opens a TCP connection to the listening socket; accept() will hand out
\* the lowest descriptor not in use
PeerConnect ==
  \E p \in Unused :
    /\ Len(backlog) < ListenBacklog
    /\ \A q \in Unused : p <= q
    /\ backlog' = Append(backlog, p)
    /\ Apply(St, "peer_connect")
    /\ UNCHANGED <<Cfg, now>>

\* client mode runs the rest of the loop body only while active_
NetRuns == client_mode_ => active_

NetConnect ==
  \E ok \in BOOLEAN :
    /\ client_mode_ /\ active_
    /\ client_socket < 0
    /\ Apply(client_connect(St, ok), IF ok THEN "connect_ok" ELSE "connect_fail")
    /\ UNCHANGED <<Cfg, now, backlog>>

NetAccept ==
  /\ ~client_mode_
  /\ client_socket < 0
  /\ backlog # <<>>
  /\ Apply(accept_client_(St, Head(backlog)), "accept")
  /\ backlog' = Tail(backlog)
  /\ UNCHANGED <<Cfg, now>>

NetRecv ==
  \E type \in PlainTypes :
    /\ NetRuns
    /\ client_socket >= 0
    /\ Apply(ping_check(handle_message_(St, type, FALSE, TRUE)), "recv_" \o type)
    /\ UNCHANGED <<Cfg, now, backlog>>

NetRecvStart ==
  \E no_ring \in BOOLEAN :
    /\ NetRuns
    /\ client_socket >= 0
    /\ Apply(ping_check(handle_message_(St, "START", no_ring, TRUE)),
             IF no_ring THEN "recv_START_NO_RING" ELSE "recv_START")
    /\ UNCHANGED <<Cfg, now, backlog>>

NetRecvAudio ==
  \E got \in BOOLEAN :
    /\ NetRuns
    /\ client_socket >= 0
    /\ Apply(ping_check(handle_message_(St, "AUDIO", FALSE, got)), "recv_AUDIO")
    /\ UNCHANGED <<Cfg, now, backlog>>

NetRecvStop ==
  \E ack \in Acks :
    /\ NetRuns
    /\ client_socket >= 0
    /\ Apply(ping_check(handle_message_(St, "STOP", FALSE, ack)), "recv_STOP")
    /\ UNCHANGED <<Cfg, now, backlog>>

\* recv() returned 0 or a hard error
NetRecvFail ==
  \E ack \in Acks :
    /\ NetRuns
    /\ client_socket >= 0
    /\ Apply(ping_check(client_disconnected(St, ack)), "recv_fail")
    /\ UNCHANGED <<Cfg, now, backlog>>

\* the header announces more payload than the receive buffer holds
NetRecvOversize ==
  \E ack \in Acks, length \in HeaderLengths :
    /\ NetRuns
    /\ client_socket >= 0
    /\ too_large(length, MAX_MESSAGE_SIZE)
    /\ Apply(ping_check(client_disconnected(St, ack)), "recv_oversize")
    /\ UNCHANGED <<Cfg, now, backlog>>

\* select() timed out: nothing to read in this iteration
NetIdle ==
  /\ NetRuns
  /\ client_socket >= 0
  /\ Apply(ping_check(St), "net_idle")
  /\ UNCHANGED <<Cfg, now, backlog>>

\* tx_task_ sends one audio chunk
TxSend ==
  \E err \in BOOLEAN :
    /\ active_
    /\ client_socket >= 0
    /\ client_streaming
    /\ Apply(tx_send(St, err), IF err THEN "tx_send_error" ELSE "tx_send")
    /\ UNCHANGED <<Cfg, now, backlog>>

Next ==
  \/ Start \/ Stop \/ AnswerCall \/ DeclineCall
  \/ ConnectTo \/ Disconnect \/ Loop \/ Tick
  \/ PeerConnect \/ NetConnect \/ NetAccept
  \/ NetRecv \/ NetRecvStart \/ NetRecvAudio \/ NetRecvStop \/ NetRecvFail
  \/ NetRecvOversize \/ NetIdle \/ TxSend

Spec == Init /\ [][Next]_vars

\* ---- interleaved teardown: stop() on the control task, STOP and disconnect on
\* ---- the net task, and the speaker task's stop protocol, one step at a time

\* the steps of stop(), in program order
StopProg ==
  <<"stop_send", "sa_xchg", "sa_wait", "sa_done", "cl_flag", "cl_xchg", "cl_close",
    "disc", "end_chk", "end_emit", "end_set">>

\* the steps of handle_message_ (STOP)
NetStopProg ==
  <<"ss_false", "cl_flag", "cl_xchg", "cl_close", "sa_xchg", "sa_wait", "sa_done",
    "disc", "end_chk", "end_emit", "end_set">>

\* the steps of server_task_ after receive_message_ returned false
NetFailProg ==
  <<"str_false", "cl_flag", "cl_xchg", "cl_close", "sa_xchg", "sa_wait", "sa_done",
    "disc", "end_chk", "end_emit", "end_set">>

Reason(t) == IF t = "ctl" THEN "local_hangup" ELSE "remote_hangup"

At(t, step) == pc[t] # <<>> /\ Head(pc[t]) = step
Go(t) == pc' = [pc EXCEPT ![t] = Tail(@)]

\* the steps of seq after the step named last
RECURSIVE After(_, _)
After(seq, last) ==
  IF seq = <<>> THEN <<>>
  ELSE IF Head(seq) = last THEN Tail(seq)
  ELSE After(Tail(seq), last)

EnvRest == <<auto_answer_, pending_incoming_call_, ringing_timeout_ms_,
            now, backlog, trace, last_op, WireVars, AuxVars>>
Env == <<client_mode_, EnvRest>>
Stamps == <<ringing_start_time_, outgoing_start_time_, last_ping>>

\* the state after an atomic handler, in the interleaved specification
TSet(r) ==
  /\ call_state_' = r.call_state_
  /\ state_' = r.state_
  /\ client_socket' = r.socket
  /\ client_streaming' = r.streaming
  /\ active_' = r.active_
  /\ ringing_start_time_' = r.ringing_start_time_
  /\ outgoing_start_time_' = r.outgoing_start_time_
  /\ last_ping' = r.last_ping
  /\ open_fds' = (open_fds \cup Opened(r.trace)) \ Closed(r.trace)
  /\ mic_running' = r.mic_running
  /\ spk_running' = r.spk_running
  /\ speaker_stop_requested_' = r.speaker_stop_requested_
  /\ ends' = IF call_state_ = "IDLE" /\ r.call_state_ # "IDLE" THEN <<>> ELSE ends

TApply(r) == TSet(r) /\ UNCHANGED Env

TStart ==
  /\ pc["ctl"] = <<>>
  /\ call_state_ = "IDLE"
  /\ TApply(start(St))
  /\ UNCHANGED <<speaker_stopped_sem_, pc, t_sock, spk_pc, sink_stop_callers, closers>>

\* connect_to(): client mode, then start()
TConnectTo ==
  /\ pc["ctl"] = <<>>
  /\ call_state_ = "IDLE"
  /\ client_mode_' = TRUE
  /\ TSet(start(St))
  /\ UNCHANGED <<EnvRest, speaker_stopped_sem_, pc, t_sock, spk_pc, sink_stop_callers,
                 closers>>

\* the descriptor a new connection gets: the lowest one not in use
FreeFd == {p \in Peers : \A t \in Tasks : ~(At(t, "cl_close") /\ t_sock[t] = p)}
LowestFd == CHOOSE p \in FreeFd : \A q \in FreeFd : p <= q

TAccept ==
  /\ pc["net"] = <<>>
  /\ ~client_mode_
  /\ client_socket < 0
  /\ FreeFd # {}
  /\ TApply(accept_client_(St, LowestFd))
  /\ closers' = {c \in closers : c[2] # LowestFd}
  /\ UNCHANGED <<speaker_stopped_sem_, pc, t_sock, spk_pc, sink_stop_callers>>

\* client mode, no socket: one connect attempt
TConnect ==
  \E ok \in BOOLEAN :
    /\ pc["net"] = <<>>
    /\ client_mode_ /\ active_
    /\ client_socket < 0
    /\ FreeFd # {}
    /\ TApply(client_connect_on(St, LowestFd, ok))
    /\ closers' = {c \in closers : c[2] # LowestFd}
    /\ UNCHANGED <<speaker_stopped_sem_, pc, t_sock, spk_pc, sink_stop_callers>>

Shared == <<call_state_, state_, client_socket, client_streaming, active_,
            mic_running, spk_running, speaker_stop_requested_>>

TRecvStart ==
  \E no_ring \in BOOLEAN :
    /\ pc["net"] = <<>>
    /\ NetRuns
    /\ client_socket >= 0
    /\ TApply(handle_message_(St, "START", no_ring, TRUE))
    /\ UNCHANGED <<speaker_stopped_sem_, pc, t_sock, spk_pc, sink_stop_callers, closers>>

\* receive_message_ has returned a START frame; handle_message_ is yet to run
TRecvFrame ==
  /\ pc["net"] = <<>>
  /\ NetRuns
  /\ client_socket >= 0
  /\ pc' = [pc EXCEPT !["net"] = <<"h_start">>]
  /\ UNCHANGED <<Shared, Env, Stamps, speaker_stopped_sem_, t_sock, spk_pc, ends,
                 sink_stop_callers, closers, open_fds>>

\* handle_message_ (START), on whatever the shared state is by now
THandleStart ==
  \E no_ring \in BOOLEAN :
    /\ At("net", "h_start")
    /\ TApply(handle_message_(St, "START", no_ring, TRUE))
    /\ Go("net")
    /\ UNCHANGED <<speaker_stopped_sem_, t_sock, spk_pc, sink_stop_callers, closers>>

\* stop() passes its guard
TStopCall ==
  /\ pc["ctl"] = <<>>
  /\ ~(~active_ /\ call_state_ = "IDLE")
  /\ pc' = [pc EXCEPT !["ctl"] = StopProg]
  /\ UNCHANGED <<Shared, Env, Stamps, speaker_stopped_sem_, t_sock, spk_pc, ends,
                 sink_stop_callers, closers, open_fds>>

\* the net task has received STOP
TRecvStop ==
  /\ pc["net"] = <<>>
  /\ NetRuns
  /\ client_socket >= 0
  /\ pc' = [pc EXCEPT !["net"] = NetStopProg]
  /\ UNCHANGED <<Shared, Env, Stamps, speaker_stopped_sem_, t_sock, spk_pc, ends,
                 sink_stop_callers, closers, open_fds>>

\* receive_message_ has returned false
TRecvFail ==
  /\ pc["net"] = <<>>
  /\ NetRuns
  /\ client_socket >= 0
  /\ pc' = [pc EXCEPT !["net"] = NetFailProg]
  /\ UNCHANGED <<Shared, Env, Stamps, speaker_stopped_sem_, t_sock, spk_pc, ends,
                 sink_stop_callers, closers, open_fds>>

\* stop(): send STOP on the current socket, if any
StopSend ==
  \E t \in Tasks :
    /\ At(t, "stop_send")
    /\ Go(t)
    /\ UNCHANGED <<Shared, Env, Stamps, speaker_stopped_sem_, t_sock, spk_pc, ends,
                   sink_stop_callers, closers, open_fds>>

\* set_active_(false): active_.exchange(false); request the speaker stop
SetActiveExchange ==
  \E t \in Tasks :
    /\ At(t, "sa_xchg")
    /\ active_' = FALSE
    /\ IF active_
       THEN speaker_stop_requested_' = TRUE /\ Go(t)
       ELSE /\ UNCHANGED speaker_stop_requested_
            /\ pc' = [pc EXCEPT ![t] = After(@, "sa_done")]
    /\ UNCHANGED <<call_state_, state_, client_socket, client_streaming, mic_running,
                   spk_running, Env, Stamps, speaker_stopped_sem_, t_sock, spk_pc, ends,
                   sink_stop_callers, closers, open_fds>>

\* set_active_(false): xSemaphoreTake succeeds
SetActiveTake ==
  \E t \in Tasks :
    /\ At(t, "sa_wait")
    /\ speaker_stopped_sem_ = 1
    /\ speaker_stopped_sem_' = 0
    /\ Go(t)
    /\ UNCHANGED <<Shared, Env, Stamps, t_sock, spk_pc, ends, sink_stop_callers, closers, open_fds>>

\* set_active_(false): the 200 ms wait expires; the waiting task stops the speaker
SetActiveTimeout ==
  \E t \in Tasks :
    /\ At(t, "sa_wait")
    /\ speaker_stopped_sem_ = 0
    /\ sink_stop_callers' = sink_stop_callers \cup {t}
    /\ spk_running' = FALSE
    /\ Go(t)
    /\ UNCHANGED <<call_state_, state_, client_socket, client_streaming, active_,
                   mic_running, speaker_stop_requested_, Env, Stamps,
                   speaker_stopped_sem_, t_sock, spk_pc, ends, closers, open_fds>>

\* set_active_(false): clear the request, stop the microphone
SetActiveDone ==
  \E t \in Tasks :
    /\ At(t, "sa_done")
    /\ speaker_stop_requested_' = FALSE
    /\ mic_running' = FALSE
    /\ Go(t)
    /\ UNCHANGED <<call_state_, state_, client_socket, client_streaming, active_,
                   spk_running, Env, Stamps, speaker_stopped_sem_, t_sock, spk_pc, ends,
                   sink_stop_callers, closers, open_fds>>

\* set_streaming_(false)
SetStreamingFalse ==
  \E t \in Tasks :
    /\ At(t, "ss_false")
    /\ client_streaming' = FALSE
    /\ state_' = "CONNECTED"
    /\ Go(t)
    /\ UNCHANGED <<call_state_, client_socket, active_, mic_running, spk_running,
                   speaker_stop_requested_, Env, Stamps, speaker_stopped_sem_, t_sock,
                   spk_pc, ends, sink_stop_callers, closers, open_fds>>

\* client_.streaming.store(false), in the disconnect path and in close_client_socket_
StoreStreamingFalse ==
  \E t \in Tasks :
    /\ At(t, "str_false") \/ At(t, "cl_flag")
    /\ client_streaming' = FALSE
    /\ Go(t)
    /\ UNCHANGED <<call_state_, state_, client_socket, active_, mic_running, spk_running,
                   speaker_stop_requested_, Env, Stamps, speaker_stopped_sem_, t_sock,
                   spk_pc, ends, sink_stop_callers, closers, open_fds>>

\* a close that reads the descriptor and leaves it installed
CloseLoad ==
  \E t \in Tasks :
    /\ At(t, "cl_xchg")
    /\ IF client_socket >= 0
       THEN t_sock' = [t_sock EXCEPT ![t] = client_socket] /\ Go(t)
       ELSE UNCHANGED t_sock /\ pc' = [pc EXCEPT ![t] = After(@, "cl_close")]
    /\ UNCHANGED <<call_state_, state_, client_socket, client_streaming, active_,
                   mic_running, spk_running, speaker_stop_requested_, Env, Stamps,
                   speaker_stopped_sem_, spk_pc, ends, sink_stop_callers, closers, open_fds>>

\* close_client_socket_: sock = client_.socket.exchange(-1)
CloseExchange ==
  \E t \in Tasks :
    /\ At(t, "cl_xchg")
    /\ client_socket' = NoSock
    /\ IF client_socket >= 0
       THEN t_sock' = [t_sock EXCEPT ![t] = client_socket] /\ Go(t)
       ELSE UNCHANGED t_sock /\ pc' = [pc EXCEPT ![t] = After(@, "cl_close")]
    /\ UNCHANGED <<call_state_, state_, client_streaming, active_, mic_running,
                   spk_running, speaker_stop_requested_, Env, Stamps,
                   speaker_stopped_sem_, spk_pc, ends, sink_stop_callers, closers, open_fds>>

\* close_client_socket_: send STOP, shutdown, close
CloseFd ==
  \E t \in Tasks :
    /\ At(t, "cl_close")
    /\ closers' = closers \cup {<<t, t_sock[t]>>}
    /\ open_fds' = open_fds \ {t_sock[t]}
    /\ t_sock' = [t_sock EXCEPT ![t] = NoSock]
    /\ Go(t)
    /\ UNCHANGED <<Shared, Env, Stamps, speaker_stopped_sem_, spk_pc, ends,
                   sink_stop_callers>>

\* state_ = DISCONNECTED
SetDisconnected ==
  \E t \in Tasks :
    /\ At(t, "disc")
    /\ state_' = "DISCONNECTED"
    /\ Go(t)
    /\ UNCHANGED <<call_state_, client_socket, client_streaming, active_, mic_running,
                   spk_running, speaker_stop_requested_, Env, Stamps,
                   speaker_stopped_sem_, t_sock, spk_pc, ends, sink_stop_callers, closers, open_fds>>

\* end_call_: if (call_state_ == IDLE) return
EndCallCheck ==
  \E t \in Tasks :
    /\ At(t, "end_chk")
    /\ pc' = [pc EXCEPT ![t] = IF call_state_ = "IDLE" THEN <<>> ELSE Tail(@)]
    /\ UNCHANGED <<Shared, Env, Stamps, speaker_stopped_sem_, t_sock, spk_pc, ends,
                   sink_stop_callers, closers, open_fds>>

\* end_call_: fire hangup_trigger_ or call_failed_trigger_ with the reason
EndCallEmit ==
  \E t \in Tasks :
    /\ At(t, "end_emit")
    /\ ends' = Append(ends, Reason(t))
    /\ Go(t)
    /\ UNCHANGED <<Shared, Env, Stamps, speaker_stopped_sem_, t_sock, spk_pc,
                   sink_stop_callers, closers, open_fds>>

\* end_call_: set_call_state_(IDLE)
EndCallSetIdle ==
  \E t \in Tasks :
    /\ At(t, "end_set")
    /\ call_state_' = "IDLE"
    /\ Go(t)
    /\ UNCHANGED <<state_, client_socket, client_streaming, active_, mic_running,
                   spk_running, speaker_stop_requested_, Env, Stamps,
                   speaker_stopped_sem_, t_sock, spk_pc, ends, sink_stop_callers, closers, open_fds>>

\* speaker_task_: the loop reads speaker_stop_requested_ as true
SpkSeeRequest ==
  /\ spk_pc = "run"
  /\ speaker_stop_requested_
  /\ spk_pc' = "stopping"
  /\ UNCHANGED <<Shared, Env, Stamps, speaker_stopped_sem_, pc, t_sock, ends,
                 sink_stop_callers, closers, open_fds>>

\* speaker_task_: speaker_->stop()
SpkStop ==
  /\ spk_pc = "stopping"
  /\ sink_stop_callers' = sink_stop_callers \cup {"spk"}
  /\ spk_running' = FALSE
  /\ spk_pc' = "give"
  /\ UNCHANGED <<call_state_, state_, client_socket, client_streaming, active_,
                 mic_running, speaker_stop_requested_, Env, Stamps,
                 speaker_stopped_sem_, pc, t_sock, ends, closers, open_fds>>

\* speaker_task_: xSemaphoreGive(speaker_stopped_sem_)
SpkGive ==
  /\ spk_pc = "give"
  /\ speaker_stopped_sem_' = 1
  /\ spk_pc' = "wait"
  /\ UNCHANGED <<Shared, Env, Stamps, pc, t_sock, ends, sink_stop_callers, closers, open_fds>>

\* speaker_task_: the inner wait ends once the request is cleared
SpkResume ==
  /\ spk_pc = "wait"
  /\ ~speaker_stop_requested_
  /\ spk_pc' = "run"
  /\ UNCHANGED <<Shared, Env, Stamps, speaker_stopped_sem_, pc, t_sock, ends,
                 sink_stop_callers, closers, open_fds>>

NextTasks ==
  \/ TStart \/ TConnectTo \/ TAccept \/ TConnect \/ TRecvStart \/ TStopCall \/ TRecvStop \/ TRecvFail
  \/ StopSend \/ SetActiveExchange \/ SetActiveTake \/ SetActiveTimeout \/ SetActiveDone
  \/ SetStreamingFalse \/ StoreStreamingFalse \/ CloseExchange \/ CloseFd
  \/ SetDisconnected \/ EndCallCheck \/ EndCallEmit \/ EndCallSetIdle
  \/ SpkSeeRequest \/ SpkStop \/ SpkGive \/ SpkResume

\* the timeouts play no part in the teardown
InitTasks == Init /\ ringing_timeout_ms_ = 0

SpecTasks == InitTasks /\ [][NextTasks]_vars

\* ---- the tasks racing with a teardown (SpecRace) ----
\* A server-mode endpoint taking inbound calls: accept, a START frame received
\* and then handled as a step of its own, STOP from the peer, stop() from the
\* main loop, all step by step as in SpecTasks, and the TX task's load of the
\* descriptor followed by its send.

NotTx == <<auto_answer_, pending_incoming_call_, ringing_timeout_ms_, client_mode_,
           now, backlog, trace, last_op, WireVars, rx, dx, aec, rf>>

\* tx_task_: active, connected and streaming; int socket = client_.socket.load()
TxLoad ==
  /\ tx.at = "top"
  /\ active_ /\ client_socket >= 0 /\ client_streaming
  /\ tx' = [at |-> "send", sock |-> client_socket]
  /\ UNCHANGED <<Shared, NotTx, Stamps, speaker_stopped_sem_, pc, t_sock, spk_pc, ends,
                 sink_stop_callers, closers, open_fds>>

\* tx_task_: send(socket, audio_tx_buffer_, total, MSG_DONTWAIT)
TxSendFd ==
  /\ tx.at = "send"
  /\ tx' = TxTop
  /\ UNCHANGED <<Shared, NotTx, Stamps, speaker_stopped_sem_, pc, t_sock, spk_pc, ends,
                 sink_stop_callers, closers, open_fds>>

NextRace ==
  \/ TAccept \/ TRecvFrame \/ THandleStart \/ TStopCall \/ TRecvStop
  \/ StopSend \/ SetActiveExchange \/ SetActiveTake \/ SetActiveTimeout \/ SetActiveDone
  \/ SetStreamingFalse \/ StoreStreamingFalse \/ CloseExchange \/ CloseFd
  \/ SetDisconnected \/ EndCallCheck \/ EndCallEmit \/ EndCallSetIdle
  \/ SpkSeeRequest \/ SpkStop \/ SpkGive \/ SpkResume
  \/ TxLoad \/ TxSendFd

InitRace == InitTasks /\ ~client_mode_

SpecRace == InitRace /\ [][NextRace]_vars

\* ---- the bytes on the socket (SpecWire) ----

\* frames begun, at most
MaxFrames == 3
\* payload bytes of an audio frame (AUDIO_CHUNK_SIZE in the program)
AudioLen == 1
CtlTotal == HEADER_SIZE
AudioTotal == HEADER_SIZE + AudioLen

\* bytes from+1 .. from+k of frame f, whose header announces total bytes in all
Bytes(f, from, k, total) == [i \in 1..k |-> <<f, from + i, total>>]

NotWire == <<Shared, Stamps, client_mode_, auto_answer_, pending_incoming_call_,
             ringing_timeout_ms_, now, backlog, trace, last_op,
             speaker_stopped_sem_, pc, t_sock, spk_pc, ends, sink_stop_callers, closers,
             open_fds, AuxVars>>

\* send_message_: the socket is valid and xSemaphoreTake(send_mutex_) succeeds
SendTake ==
  \E t \in Tasks :
    /\ client_socket >= 0
    /\ send_mutex_ = "none"
    /\ frames < MaxFrames
    /\ send_mutex_' = t
    /\ frames' = frames + 1
    /\ frame' = [frame EXCEPT ![t] = frames + 1]
    /\ offset' = [offset EXCEPT ![t] = 0]
    /\ UNCHANGED <<wire, NotWire>>

\* send_message_: one send() call takes k of the remaining bytes; after the last
\* byte the loop ends and the mutex is given back
SendPart ==
  \E t \in Tasks :
    /\ send_mutex_ = t
    /\ \E k \in 1..(CtlTotal - offset[t]) :
         /\ wire' = wire \o Bytes(frame[t], offset[t], k, CtlTotal)
         /\ offset' = [offset EXCEPT ![t] = @ + k]
         /\ send_mutex_' = IF offset[t] + k = CtlTotal THEN "none" ELSE t
    /\ UNCHANGED <<frame, frames, NotWire>>

\* send_message_: send() returns 0, a real error, or EAGAIN for more than 20 ms
SendGiveUp ==
  \E t \in Tasks :
    /\ send_mutex_ = t
    /\ send_mutex_' = "none"
    /\ UNCHANGED <<wire, offset, frame, frames, NotWire>>

\* tx_task_: one send() of a whole audio frame, without the mutex; the socket
\* takes k of its bytes and the rest is dropped
AudioSend ==
  /\ active_
  /\ client_socket >= 0
  /\ frames < MaxFrames
  /\ frames' = frames + 1
  /\ \E k \in 0..AudioTotal : wire' = wire \o Bytes(frames + 1, 0, k, AudioTotal)
  /\ UNCHANGED <<send_mutex_, offset, frame, NotWire>>

NextWire ==
  \/ TAccept \/ TRecvStart
  \/ SendTake \/ SendPart \/ SendGiveUp \/ AudioSend

SpecWire == InitTasks /\ [][NextWire]_vars

\* ---- receive_message_ on a non-blocking socket (SpecRecv) ----

\* the largest payload the caller's buffer takes (buffer_size - HEADER_SIZE)
RxPayloadMax == 2
\* buffer_size, as passed by the caller
RxBufferSize == HEADER_SIZE + RxPayloadMax
MAX_RETRY == 50

\* everything but the variables of the single-function specifications
EndpointVars ==
  <<call_state_, state_, client_socket, client_streaming, active_,
    client_mode_, auto_answer_, pending_incoming_call_,
    ringing_timeout_ms_, ringing_start_time_, outgoing_start_time_,
    last_ping, open_fds, now, backlog, mic_running, spk_running, trace, last_op,
    speaker_stop_requested_, speaker_stopped_sem_, pc, t_sock, spk_pc,
    ends, sink_stop_callers, closers, wire, send_mutex_, offset, frame, frames>>

\* the endpoint as constructed, with one configuration
EndpointIdle == InitEndpoint /\ ~auto_answer_ /\ ringing_timeout_ms_ = 0

\* MessageHeader on the wire: type, flags, length as uint16 little-endian
EncodeHeader(h) == <<h.type, h.flags, h.length % 256, h.length \div 256>>
\* memcpy(&header, buffer, HEADER_SIZE)
DecodeHeader(b) == [type |-> b[1], flags |-> b[2], length |-> b[3] + 256 * b[4]]

\* the payload bytes of a frame; byte i is 10 + i
PayloadOf(n) == [i \in 1..n |-> 10 + i]

\* the lengths the peer announces: all that fit, one too many, and one that
\* needs the high byte of the field
RxLengths == (0..(RxPayloadMax + 1)) \cup {256}
RxHeaders == [type : {0, 1}, flags : {0, 1}, length : RxLengths]

RxMin(a, b) == IF a < b THEN a ELSE b

\* what the peer puts on the connection: the frame (its payload cut where the
\* model stops caring) and the first byte of the frame after it
StreamOf(h) ==
  EncodeHeader(h) \o PayloadOf(RxMin(h.length, RxPayloadMax + 1)) \o <<99>>

\* the call begins: locals initialised, buffer holding what an earlier frame left
RxStart(h) ==
  [at |-> "header", sent |-> h, stream |-> StreamOf(h), pos |-> 0,
   buffer |-> [i \in 1..RxBufferSize |-> 255],
   header_read |-> 0, payload_read |-> 0, retry |-> 0,
   header |-> [type |-> 255, flags |-> 255, length |-> 0],
   result |-> "none", cause |-> "", reads |-> 0, waited |-> FALSE]

InitRecv ==
  /\ EndpointIdle
  /\ \E h \in RxHeaders : rx = RxStart(h)
  /\ dx = DxSetup
  /\ aec = AecOff
  /\ rf = RefOff
  /\ tx = TxTop

\* the loop condition of the header loop and of the payload loop
RxLooping ==
  \/ rx.at = "header" /\ rx.header_read < HEADER_SIZE /\ rx.retry < MAX_RETRY
  \/ rx.at = "payload" /\ rx.payload_read < rx.header.length /\ rx.retry < MAX_RETRY

\* where the next recv() writes, and how much it asks for
RxOffset == IF rx.at = "header" THEN rx.header_read ELSE HEADER_SIZE + rx.payload_read
RxWant ==
  IF rx.at = "header" THEN HEADER_SIZE - rx.header_read
  ELSE rx.header.length - rx.payload_read

\* buffer b after k bytes of the stream, from position pos, are stored at off
RxStore(b, off, pos, k) ==
  [i \in 1..RxBufferSize |->
     IF i > off /\ i <= off + k THEN rx.stream[pos + (i - off)] ELSE b[i]]

\* recv() returned k > 0 bytes, and the retry count is kept
RxDataKeepRetry ==
  /\ rx.at \in {"header", "payload"}
  /\ RxLooping
  /\ \E k \in 1..RxWant :
       /\ rx.pos + k <= Len(rx.stream)
       /\ rx' = [rx EXCEPT !.buffer = RxStore(@, RxOffset, rx.pos, k),
                           !.pos = @ + k,
                           !.header_read = IF rx.at = "header" THEN @ + k ELSE @,
                           !.payload_read = IF rx.at = "payload" THEN @ + k ELSE @,
                           !.reads = @ + 1]
  /\ UNCHANGED <<EndpointVars, dx, aec, rf, tx>>

\* recv() returned k > 0 bytes: a segment, or a part of one
RxData ==
  /\ rx.at \in {"header", "payload"}
  /\ RxLooping
  /\ \E k \in 1..RxWant :
       /\ rx.pos + k <= Len(rx.stream)
       /\ rx' = [rx EXCEPT !.buffer = RxStore(@, RxOffset, rx.pos, k),
                           !.pos = @ + k,
                           !.header_read = IF rx.at = "header" THEN @ + k ELSE @,
                           !.payload_read = IF rx.at = "payload" THEN @ + k ELSE @,
                           !.retry = 0,
                           !.reads = @ + 1]
  /\ UNCHANGED <<EndpointVars, dx, aec, rf, tx>>

\* recv() returned -1 with EAGAIN / EWOULDBLOCK: nothing has arrived yet
RxAgain ==
  /\ rx.at \in {"header", "payload"}
  /\ RxLooping
  /\ rx' = [rx EXCEPT !.retry = @ + 1, !.waited = TRUE]
  /\ UNCHANGED <<EndpointVars, dx, aec, rf, tx>>

\* recv() returned 0 or a hard error
RxClosed ==
  /\ rx.at \in {"header", "payload"}
  /\ RxLooping
  /\ rx' = [rx EXCEPT !.at = "done", !.result = "false", !.cause = "closed"]
  /\ UNCHANGED <<EndpointVars, dx, aec, rf, tx>>

\* after the header loop: the count, the header, the length check
RxHeaderEnd ==
  /\ rx.at = "header"
  /\ ~RxLooping
  /\ LET h == DecodeHeader(rx.buffer)
     IN rx' = IF rx.header_read # HEADER_SIZE
              THEN [rx EXCEPT !.at = "done", !.result = "false", !.cause = "incomplete"]
              ELSE IF too_large(h.length, RxBufferSize)
              THEN [rx EXCEPT !.header = h, !.at = "done", !.result = "false",
                              !.cause = "too_large"]
              ELSE IF h.length > 0
              THEN [rx EXCEPT !.header = h, !.at = "payload", !.payload_read = 0,
                              !.retry = 0]
              ELSE [rx EXCEPT !.header = h, !.at = "done", !.result = "true"]
  /\ UNCHANGED <<EndpointVars, dx, aec, rf, tx>>

\* after the payload loop
RxPayloadEnd ==
  /\ rx.at = "payload"
  /\ ~RxLooping
  /\ rx' = IF rx.payload_read # rx.header.length
           THEN [rx EXCEPT !.at = "done", !.result = "false", !.cause = "incomplete"]
           ELSE [rx EXCEPT !.at = "done", !.result = "true"]
  /\ UNCHANGED <<EndpointVars, dx, aec, rf, tx>>

NextRecv == RxData \/ RxAgain \/ RxClosed \/ RxHeaderEnd \/ RxPayloadEnd

SpecRecv == InitRecv /\ [][NextRecv]_vars

\* ---- the reference-counted wrappers of the shared I2S bus (SpecDuplex) ----

\* listeners of one wrapper, at most
MaxListeners == 2

\* xSemaphoreTake(active_listeners_semaphore_, 0): one slot less, or nothing
\* when none is left
SemTake(n) == IF n > 0 THEN n - 1 ELSE n
\* xSemaphoreGive: one slot more, or nothing when all are back
SemGive(n) == IF n < MAX_LISTENERS THEN n + 1 ELSE n

\* start(): register as a listener
wrapper_start(d, w) ==
  [d EXCEPT !.sem[w] = SemTake(@), !.listeners[w] = @ + 1]

\* stop(): unregister, unless state_ is STATE_STOPPED
wrapper_stop(d, w) ==
  IF d.state[w] = "STOPPED" THEN [d EXCEPT !.listeners[w] = @ - 1]
  ELSE [d EXCEPT !.sem[w] = SemGive(@), !.listeners[w] = @ - 1]

\* loop(): follow the semaphore count, then act on state_; start_mic /
\* start_speaker start the bus if it is not running, stop_mic / stop_speaker
\* stop the whole bus
wrapper_loop(d, w) ==
  LET count == d.sem[w]
      st1 == IF count < MAX_LISTENERS /\ d.state[w] = "STOPPED" THEN "STARTING"
             ELSE d.state[w]
      st2 == IF count = MAX_LISTENERS /\ st1 = "RUNNING" THEN "STOPPING" ELSE st1
  IN CASE st2 = "STARTING" ->
            [d EXCEPT !.state[w] = "RUNNING", !.duplex_running_ = TRUE]
       [] st2 = "STOPPING" ->
            [d EXCEPT !.state[w] = "STOPPED", !.duplex_running_ = FALSE]
       [] OTHER -> [d EXCEPT !.state[w] = st2]

DxStart(w) ==
  /\ dx.listeners[w] < MaxListeners
  /\ dx' = wrapper_start(dx, w)
  /\ UNCHANGED <<EndpointVars, rx, aec, rf, tx>>

\* a listener that has started stops
DxStop(w) ==
  /\ dx.listeners[w] > 0
  /\ dx' = wrapper_stop(dx, w)
  /\ UNCHANGED <<EndpointVars, rx, aec, rf, tx>>

\* I2SAudioDuplexSpeaker::play(): start() first unless STATE_RUNNING
DxPlay ==
  /\ dx.state["spk"] # "RUNNING"
  /\ dx.listeners["spk"] < MaxListeners
  /\ dx' = wrapper_start(dx, "spk")
  /\ UNCHANGED <<EndpointVars, rx, aec, rf, tx>>

DxLoop(w) ==
  /\ dx' = wrapper_loop(dx, w)
  /\ UNCHANGED <<EndpointVars, rx, aec, rf, tx>>

NextDuplex ==
  \/ \E w \in Wrappers : DxStart(w)
  \/ \E w \in Wrappers : DxStop(w)
  \/ \E w \in Wrappers : DxLoop(w)
  \/ DxPlay

InitDuplex ==
  /\ EndpointIdle
  /\ rx = RxIdle
  /\ dx = DxSetup
  /\ aec = AecOff
  /\ rf = RefOff
  /\ tx = TxTop

\* the main loop calls every component's loop() again and again
SpecDuplex ==
  /\ InitDuplex
  /\ [][NextDuplex]_vars
  /\ \A w \in Wrappers : WF_vars(DxLoop(w))

\* ---- tx_task_ with AEC: the frame accumulator (SpecAec) ----

\* samples of one captured chunk (AUDIO_CHUNK_SIZE / sizeof(int16_t) in the program)
ChunkSamples == 2
\* chunks captured, at most
MaxChunks == 4
\* the frame sizes setup() accepts: 1 .. 1024 samples, four chunks
FrameSizes == 1..(4 * ChunkSamples)

AecMin(a, b) == IF a < b THEN a ELSE b

\* std::min(num_samples, (size_t) frame_samples - fill): the difference is a
\* size_t, so with fill > frame_samples it wraps to nearly 2^32 and the
\* minimum is num_samples
SamplesToCopy(num_samples, F, fill) ==
  IF fill > F THEN num_samples ELSE AecMin(num_samples, F - fill)

\* setup() with AEC: buffers of frame_samples samples, nothing accumulated;
\* base and next count the samples captured before and in the present call
AecStart(F) ==
  [at |-> "on", frame_samples |-> F, aec_mic_fill_ |-> 0,
   aec_mic_ |-> [i \in 1..F |-> 0],
   base |-> 0, next |-> 0, chunks |-> 0,
   calls |-> <<>>, overflow |-> FALSE]

\* memcpy(aec_mic_ + at, src, n samples): the part that lands inside the buffer
AecCopy(buf, F, from, src, n) ==
  [i \in 1..F |-> IF i > from /\ i <= from + n THEN src[i - from] ELSE buf[i]]
\* the copy runs past the end of aec_mic_
AecPast(F, from, n) == n > 0 /\ from + n > F

\* one chunk through the AEC branch of tx_task_.
\* ref_ok: spk_ref_mutex_ taken and a frame of reference available;
\* up: active_ and a socket at the moment of sending
aec_chunk(a, ref_ok, up) ==
  LET F == a.frame_samples
      mic_samples == [j \in 1..ChunkSamples |-> a.next + j]
      samples_to_copy == SamplesToCopy(ChunkSamples, F, a.aec_mic_fill_)
      mic1 == AecCopy(a.aec_mic_, F, a.aec_mic_fill_, mic_samples, samples_to_copy)
      past1 == AecPast(F, a.aec_mic_fill_, samples_to_copy)
      fill1 == a.aec_mic_fill_ + samples_to_copy
      full == fill1 >= F
      call == [mic |-> mic1, fill |-> fill1, frame_size |-> F,
               ref |-> IF ref_ok THEN "reference" ELSE "silence", ref_samples |-> F,
               sent |-> up, length |-> F * 2]
      remaining == ChunkSamples - samples_to_copy
      rest == [j \in 1..remaining |-> mic_samples[samples_to_copy + j]]
      carry == full /\ samples_to_copy < ChunkSamples
      mic2 == IF carry THEN AecCopy(mic1, F, 0, rest, remaining) ELSE mic1
      past2 == carry /\ AecPast(F, 0, remaining)
  IN [a EXCEPT !.aec_mic_ = mic2,
               !.aec_mic_fill_ = IF ~full THEN fill1 ELSE IF carry THEN remaining ELSE 0,
               !.calls = IF full THEN Append(@, call) ELSE @,
               !.next = @ + ChunkSamples,
               !.chunks = @ + 1,
               !.overflow = @ \/ past1 \/ past2]

AecEndpoint == <<EndpointVars, rx, dx, rf, tx>>

\* a chunk is read from the mic ring and handled; a copy past the end of the
\* accumulator corrupts the heap: the task goes on, or the program stops
AecChunk ==
  \E ref_ok \in BOOLEAN, up \in BOOLEAN, crash \in BOOLEAN :
    /\ aec.at = "on"
    /\ aec.chunks < MaxChunks
    /\ LET a == aec_chunk(aec, ref_ok, up)
       IN /\ crash => a.overflow /\ ~aec.overflow
          /\ aec' = IF crash THEN [a EXCEPT !.at = "crashed"] ELSE a
    /\ UNCHANGED AecEndpoint

\* tx_task_ finds the call paused (not active, no socket or not streaming):
\* the accumulator is emptied, and what follows belongs to another call
AecPause ==
  /\ aec.at = "on"
  /\ aec.calls # <<>> \/ aec.aec_mic_fill_ > 0
  /\ aec' = [aec EXCEPT !.aec_mic_fill_ = 0, !.base = aec.next, !.calls = <<>>]
  /\ UNCHANGED AecEndpoint

NextAec == AecChunk \/ AecPause

InitAec ==
  /\ EndpointIdle
  /\ rx = RxIdle
  /\ dx = DxSetup
  /\ rf = RefOff
  /\ tx = TxTop
  /\ \E F \in FrameSizes : aec = AecStart(F)

SpecAec == InitAec /\ [][NextAec]_vars

\* ---- the AEC reference ring: reset_aec_buffers_, speaker_task_, tx_task_ ----
\* Samples, not bytes. A played sample is a positive even number (so that
\* halving it keeps it apart from its neighbours); the seed is zeros.

\* AEC_REF_DELAY_SAMPLES, in samples of the model
RefDelay == 2
\* RX_BUFFER_SIZE, in samples of the model
RefRxRing == 2
\* the most samples the playback task takes from the speaker ring in one call
MaxPlayed == 3
\* the most calls started
MaxCalls == 2

\* RingBuffer::create(AEC_REF_DELAY_BYTES + RX_BUFFER_SIZE)
RefCapacity == RefDelay + RefRxRing

\* aec_frame_samples_ of the kernel
RefFrameSizes == 1..2

\* volume_: above 0.001 and not 1.0, exactly 1.0, or at most 0.001
Volumes == {"half", "full", "mute"}

\* static_cast<int16_t>(src[i] * volume_), clamped to the int16 range
ScaleSample(v, x) ==
  LET scaled == IF v = "half" THEN x \div 2 ELSE x
  IN IF scaled > 32767 THEN 32767 ELSE IF scaled < -32768 THEN -32768 ELSE scaled

ScaleChunk(v, c) == [i \in 1..Len(c) |-> ScaleSample(v, c[i])]

Silence(n) == [i \in 1..n |-> 0]

\* RingBuffer::write: when the free space is short the oldest data is dropped
RingWrite(ring, data) ==
  LET all == ring \o data
  IN IF Len(all) > RefCapacity
     THEN SubSeq(all, Len(all) - RefCapacity + 1, Len(all)) ELSE all

\* RingBuffer::read of n samples that are available
RingRead(ring, n) == SubSeq(ring, n + 1, Len(ring))

\* setup(): the ring is created empty
RefSetup(F) ==
  [at |-> "on", frame_samples |-> F, ring |-> <<>>, seeded |-> FALSE,
   calls |-> 0, next |-> 1, submitted |-> <<>>, appended |-> <<>>,
   aec_ref_ |-> <<>>, reads |-> 0]

\* reset_aec_buffers_(): under spk_ref_mutex_ (50 ms) the ring is reset and, if
\* the silence buffer could be allocated, seeded; nothing when the take expires
reset_aec_buffers_(r, got, silence) ==
  IF ~got THEN r
  ELSE [r EXCEPT !.ring = IF silence THEN RingWrite(<<>>, Silence(RefDelay)) ELSE <<>>,
                 !.seeded = silence]

\* speaker_task_: n samples read from the speaker ring; they are played unless
\* the volume is (almost) zero, and then, under spk_ref_mutex_ (2 ms), the
\* scaled samples are written to the reference ring
speaker_play(r, n, v, got) ==
  LET chunk == [i \in 1..n |-> 2 * (r.next + i - 1)]
      r1 == [r EXCEPT !.next = @ + n]
  IN IF v = "mute" THEN r1
     ELSE LET r2 == [r1 EXCEPT !.submitted = @ \o ScaleChunk(v, chunk)]
          IN IF got
             THEN [r2 EXCEPT !.ring = RingWrite(@, ScaleChunk(v, chunk)),
                             !.appended = @ \o ScaleChunk(v, chunk)]
             ELSE r2

\* tx_task_ with a full mic frame: under spk_ref_mutex_ (2 ms) a frame of
\* reference is read if the ring holds one; silence otherwise
reference_read(r, got) ==
  LET F == r.frame_samples
  IN IF got /\ Len(r.ring) >= F
     THEN [r EXCEPT !.aec_ref_ = SubSeq(r.ring, 1, F), !.ring = RingRead(@, F),
                    !.reads = @ + 1]
     ELSE [r EXCEPT !.aec_ref_ = Silence(F), !.reads = @ + 1]

RefEndpoint == <<EndpointVars, rx, dx, aec, tx>>

\* a call starts streaming: set_streaming_(true) resets the AEC buffers
RefReset ==
  \E got \in BOOLEAN, silence \in BOOLEAN :
    /\ rf.at = "on"
    /\ rf.calls < MaxCalls
    /\ rf' = [reset_aec_buffers_(rf, got, silence)
                EXCEPT !.calls = @ + 1, !.next = 1, !.submitted = <<>>,
                       !.appended = <<>>, !.reads = 0, !.aec_ref_ = <<>>]
    /\ UNCHANGED RefEndpoint

\* the playback task takes one or two chunks from the speaker ring
RefPlay ==
  \E n \in 1..2, v \in Volumes, got \in BOOLEAN :
    /\ rf.at = "on"
    /\ rf.calls > 0
    /\ rf.next + n - 1 <= MaxPlayed
    /\ rf' = speaker_play(rf, n, v, got)
    /\ UNCHANGED RefEndpoint

\* the TX task has a full mic frame and fetches its reference
RefRead ==
  \E got \in BOOLEAN :
    /\ rf.at = "on"
    /\ rf.calls > 0
    /\ rf.reads < MaxPlayed
    /\ rf' = reference_read(rf, got)
    /\ UNCHANGED RefEndpoint

NextRef == RefReset \/ RefPlay \/ RefRead

InitRef ==
  /\ EndpointIdle
  /\ rx = RxIdle
  /\ dx = DxSetup
  /\ aec = AecOff
  /\ tx = TxTop
  /\ \E F \in RefFrameSizes : rf = RefSetup(F)

SpecRef == InitRef /\ [][NextRef]_vars

\* ---- claims ----

\* what the last handler put in trace
Has(k, a) == \E i \in 1..Len(trace) : trace[i].k = k /\ trace[i].a = a
EndEvents == {i \in 1..Len(trace) : trace[i].k = "end"}

\* C1: in every reachable state, CallState = Streaming implies that a peer socket
\* exists and the session's streaming flag is true.
C1_StreamingImpliesSession ==
  call_state_ = "STREAMING" => (client_socket # NoSock /\ client_streaming)

\* the net-task steps that serve the installed peer
RecvOps == {"recv_" \o ty : ty \in MessageTypes} \cup {"recv_START_NO_RING", "recv_fail"}

\* C2: when a peer session exists and a second peer has opened a connection, the
\* net task's pass answers ERROR{BUSY} on the new connection and closes it, and
\* leaves the installed session's socket as it was unless that pass ended the call.
C2_SecondPeerGetsBusy ==
  [][(~client_mode_ /\ client_socket # NoSock /\ backlog # <<>> /\ last_op' \in RecvOps)
       => LET c == Head(backlog)
          IN /\ \E i \in 1..Len(trace') :
                  trace'[i].k = "send" /\ trace'[i].a = "ERROR" /\ trace'[i].fd = c
             /\ \E i \in 1..Len(trace') : trace'[i].k = "close" /\ trace'[i].fd = c
             /\ backlog' = Tail(backlog)]_vars

\* the place of a teardown step in the order the claim gives; 0 for other entries
Rank(e) ==
  CASE e.k = "store_streaming" /\ e.a = "false" -> 1
    [] e.k = "close" -> 2
    [] e.k = "sink_stop" -> 3
    [] e.k = "mic_stop" -> 4
    [] e.k = "end" -> 5
    [] e.k = "trigger" /\ e.a = "idle" -> 5
    [] OTHER -> 0

\* C4: on every call-ending path the teardown steps that occur, occur in the
\* order: streaming flag cleared, socket closed, sink stop, capture stop, FSM to
\* Idle with the reason event.
C4_TeardownOrder ==
  EndEvents # {} =>
    \A i, j \in 1..Len(trace) :
      (i < j /\ Rank(trace[i]) > 0 /\ Rank(trace[j]) > 0)
        => Rank(trace[i]) <= Rank(trace[j])

\* C7: a failed or timed-out connect attempt in client-dial mode closes the socket
\* and returns the call to Idle with CallFailed{Unreachable}.
C7_ConnectFailUnreachable ==
  last_op = "connect_fail" =>
    /\ call_state_ = "IDLE"
    /\ \E i \in 1..Len(trace) :
         trace[i].k = "end" /\ trace[i].a = "call_failed" /\ trace[i].r = "unreachable"

\* the session and audio fields a handler may change
Session == <<call_state_, state_, client_socket, client_streaming, active_,
             ringing_start_time_, outgoing_start_time_, mic_running, spk_running>>

RingingDue ==
  call_state_ = "RINGING" /\ now - ringing_start_time_ >= ringing_timeout_ms_
OutgoingDue ==
  call_state_ = "OUTGOING" /\ now - outgoing_start_time_ >= ringing_timeout_ms_

C9_AnswerBringsStreaming ==
  [][(last_op' = "answer_call" /\ call_state_ = "RINGING" /\ client_socket # NoSock)
       => /\ call_state_' = "STREAMING"
          /\ client_streaming'
          /\ \E i \in 1..Len(trace') :
               trace'[i].k = "send" /\ trace'[i].a = "ANSWER"]_vars

\* C10: stop() in a non-Idle call state sends STOP on the current socket if one
\* exists, stops audio, closes the socket and leaves CallState Idle, socket none
\* and streaming false, with exactly one Hangup{local_hangup}; stop() when Idle
\* and inactive changes nothing.
C10_Stop ==
  [][(last_op' = "stop")
       => /\ call_state_ # "IDLE" =>
               /\ call_state_' = "IDLE"
               /\ client_socket' = NoSock
               /\ ~client_streaming'
               /\ ~active_' /\ ~mic_running' /\ ~spk_running'
               /\ client_socket # NoSock =>
                    /\ \E i \in 1..Len(trace') :
                         /\ trace'[i].k = "send" /\ trace'[i].a = "STOP"
                         /\ trace'[i].fd = client_socket
                    /\ \E i \in 1..Len(trace') :
                         trace'[i].k = "close" /\ trace'[i].fd = client_socket
               /\ Cardinality({i \in 1..Len(trace') : trace'[i].k = "end"}) = 1
               /\ \A i \in 1..Len(trace') :
                    trace'[i].k = "end"
                      => (trace'[i].a = "hangup" /\ trace'[i].r = "local_hangup")
          /\ (call_state_ = "IDLE" /\ ~active_) =>
               /\ UNCHANGED Session
               /\ trace' = <<>>]_vars

\* C10 witness: stop() has ended a Streaming-capable call that had a peer socket.
C10_Witness ==
  /\ last_op = "stop"
  /\ \E i \in 1..Len(trace) : trace[i].k = "close"
  /\ \E i \in 1..Len(trace) : trace[i].k = "end" /\ trace[i].r = "local_hangup"
  /\ \E i \in 1..Len(trace) : trace[i].k = "sink_stop"
  /\ call_state_ = "IDLE"

\* C3: every call lifecycle emits exactly one end event: between two departures
\* of CallState from Idle at most one Hangup or CallFailed is fired, also when
\* stop() and the net task's STOP or disconnect handling end the call together.
C3_OneEndEventPerCall == Len(ends) <= 1

\* C6: speaker_->stop() is called by the playback task only.
C6_OnlyPlaybackTaskStopsSink == sink_stop_callers \subseteq {"spk"}

\* C5: frames appear on the wire whole and one after another: the bytes of one
\* frame are never separated by bytes of a frame sent by another task.
C5_FramesNotInterleaved ==
  \A i \in 1..Len(wire) : \A j \in i..Len(wire) : \A k \in j..Len(wire) :
    wire[i][1] = wire[k][1] => wire[j][1] = wire[i][1]

\* C11: decline() on a Ringing call sends ERROR{BUSY} to the caller, closes the
\* socket and ends the call in Idle with one Hangup{declined}; in any other state
\* it sends nothing and changes no state.
C11_Decline ==
  [][(last_op' = "decline_call")
       => IF call_state_ = "RINGING"
          THEN /\ call_state_' = "IDLE"
               /\ client_socket' = NoSock
               /\ client_socket # NoSock =>
                    /\ \E i \in 1..Len(trace') :
                         /\ trace'[i].k = "send" /\ trace'[i].a = "ERROR"
                         /\ trace'[i].r = "BUSY" /\ trace'[i].fd = client_socket
                    /\ \E i \in 1..Len(trace') :
                         trace'[i].k = "close" /\ trace'[i].fd = client_socket
               /\ Cardinality({i \in 1..Len(trace') : trace'[i].k = "end"}) = 1
               /\ \A i \in 1..Len(trace') :
                    trace'[i].k = "end"
                      => (trace'[i].a = "hangup" /\ trace'[i].r = "declined")
          ELSE /\ UNCHANGED Session
               /\ trace' = <<>>]_vars

\* C12: start() in Idle moves the FSM to Outgoing, records outgoing_start = now,
\* activates the endpoint (the condition under which the net task dials in client
\* mode) and notifies the net task; start() in any other call state changes nothing.
C12_Start ==
  [][(last_op' = "start")
       => IF call_state_ = "IDLE"
          THEN /\ call_state_' = "OUTGOING"
               /\ outgoing_start_time_' = now
               /\ active_'
               /\ \E i \in 1..Len(trace') :
                    trace'[i].k = "notify" /\ trace'[i].a = "server_task"
               /\ \E i \in 1..Len(trace') :
                    trace'[i].k = "trigger" /\ trace'[i].a = "outgoing_call"
          ELSE /\ UNCHANGED Session
               /\ trace' = <<>>]_vars

\* C12 witness: start() has placed a call at a time after boot.
C12_Witness ==
  /\ last_op = "start"
  /\ call_state_ = "OUTGOING"
  /\ now > 0
  /\ outgoing_start_time_ = now
  /\ active_
  /\ \E i \in 1..Len(trace) : trace[i].k = "notify" /\ trace[i].a = "server_task"

\* positions in the new trace of an entry of kind k about a
Pos(k, a) == {i \in 1..Len(trace') : trace'[i].k = k /\ trace'[i].a = a}

\* C13: START without NO_RING received in Idle with auto answer off: RING is
\* replied, the FSM goes Idle -> Incoming -> Ringing with both events, the
\* streaming flag stays false, and ringing_start is written, as now, before the
\* state becomes Ringing.
C13_StartRings ==
  [][(last_op' = "recv_START" /\ call_state_ = "IDLE" /\ ~auto_answer_)
       => /\ call_state_' = "RINGING"
          /\ ~client_streaming'
          /\ ringing_start_time_' = now
          /\ \E a \in Pos("trigger", "incoming_call") :
               \E b \in Pos("send", "RING") :
                 \E c \in Pos("store_ringing_start", "") :
                   \E d \in Pos("trigger", "ringing") :
                     /\ a < b /\ b < c /\ c < d
                     /\ trace'[b].fd = client_socket
          /\ Pos("trigger", "streaming") = {}]_vars

\* C14: START without NO_RING received in Idle with auto answer on: the FSM goes
\* Idle -> Answering -> Streaming, never through Incoming or Ringing, audio is
\* started and PONG is sent to the caller.
C14_StartAutoAnswer ==
  [][(last_op' = "recv_START" /\ call_state_ = "IDLE" /\ auto_answer_)
       => /\ call_state_' = "STREAMING"
          /\ client_streaming'
          /\ active_' /\ mic_running' /\ spk_running'
          /\ \E a \in Pos("trigger", "answered") :
               \E b \in Pos("trigger", "streaming") : a < b
          /\ Pos("trigger", "incoming_call") = {}
          /\ Pos("trigger", "ringing") = {}
          /\ \E i \in Pos("send", "PONG") : trace'[i].fd = client_socket]_vars

\* C14 witness: an auto-answered START has brought the call to Streaming.
C14_Witness ==
  /\ last_op = "recv_START"
  /\ auto_answer_
  /\ call_state_ = "STREAMING"
  /\ client_streaming /\ active_
  /\ \E i \in 1..Len(trace) : trace[i].k = "trigger" /\ trace[i].a = "answered"
  /\ \E i \in 1..Len(trace) : trace[i].k = "send" /\ trace[i].a = "PONG"

AudioStates ==
  /\ call_state_' = IF call_state_ = "OUTGOING" THEN "STREAMING" ELSE call_state_
  /\ state_' = "STREAMING"
  /\ UNCHANGED <<client_socket, client_streaming, active_>>

C17_InboundStop ==
  [][(last_op' = "recv_STOP")
       => /\ call_state_' = "IDLE"
          /\ client_socket' = NoSock
          /\ ~client_streaming'
          /\ ~active_' /\ ~mic_running' /\ ~spk_running'
          /\ \E i \in 1..Len(trace') :
               trace'[i].k = "close" /\ trace'[i].fd = client_socket
          /\ IF call_state_ # "IDLE"
             THEN /\ Cardinality({i \in 1..Len(trace') : trace'[i].k = "end"}) = 1
                  /\ \A i \in 1..Len(trace') :
                       trace'[i].k = "end"
                         => (trace'[i].a = "hangup" /\ trace'[i].r = "remote_hangup")
             ELSE \A i \in 1..Len(trace') : trace'[i].k # "end"]_vars

\* C17 witness: an inbound STOP has ended a call that had audio running.
C17_Witness ==
  /\ last_op = "recv_STOP"
  /\ call_state_ = "IDLE"
  /\ client_socket = NoSock
  /\ \E i \in 1..Len(trace) : trace[i].k = "sink_stop"
  /\ \E i \in 1..Len(trace) : trace[i].k = "close"
  /\ \E i \in 1..Len(trace) : trace[i].k = "end" /\ trace[i].r = "remote_hangup"

\* the step did nothing but, at most, send the keep-alive PING that closes the
\* net task's iteration
OnlyKeepAlive ==
  \A i \in 1..Len(trace') : trace'[i].k = "send" /\ trace'[i].a = "PING"

\* C18: an inbound ANSWER in Outgoing moves the FSM to Streaming and PONG is
\* replied; in Ringing the FSM goes Answering then Streaming, audio is started and
\* PONG is replied; in any other state nothing changes and nothing is sent.
C18_InboundAnswer ==
  [][(last_op' = "recv_ANSWER")
       => CASE call_state_ = "OUTGOING" ->
                 /\ call_state_' = "STREAMING"
                 /\ client_streaming'
                 /\ \E i \in Pos("send", "PONG") : trace'[i].fd = client_socket
            [] call_state_ = "RINGING" ->
                 /\ call_state_' = "STREAMING"
                 /\ client_streaming'
                 /\ active_' /\ mic_running' /\ spk_running'
                 /\ \E a \in Pos("trigger", "answered") :
                      \E b \in Pos("trigger", "streaming") : a < b
                 /\ \E i \in Pos("send", "PONG") : trace'[i].fd = client_socket
            [] OTHER ->
                 /\ UNCHANGED Session
                 /\ OnlyKeepAlive]_vars

\* C18 witness: an inbound ANSWER has answered a Ringing call.
C18_Witness ==
  /\ last_op = "recv_ANSWER"
  /\ call_state_ = "STREAMING"
  /\ active_ /\ client_streaming
  /\ \E i \in 1..Len(trace) : trace[i].k = "trigger" /\ trace[i].a = "answered"
  /\ \E i \in 1..Len(trace) : trace[i].k = "send" /\ trace[i].a = "PONG"

\* C19: in client-dial mode a PONG received while the connection is Connected
\* sets the streaming flag and moves an Outgoing call to Streaming; in every
\* other situation a PONG changes no call or connection state.
C19_PongPromotes ==
  [][(last_op' = "recv_PONG")
       => IF client_mode_ /\ state_ = "CONNECTED"
          THEN /\ client_streaming'
               /\ state_' = "STREAMING"
               /\ call_state_ = "OUTGOING" => call_state_' = "STREAMING"
          ELSE /\ UNCHANGED Session
               /\ OnlyKeepAlive]_vars

\* the call states in which the accept policy refuses a new connection
RefusingStates == {"INCOMING", "RINGING", "ANSWERING", "STREAMING"}

\* C20: a new inbound connection is installed as the peer session only when
\* CallState is Idle or Outgoing; when CallState is Incoming, Ringing, Answering
\* or Streaming, the net task's pass answers the waiting connection with
\* ERROR{BUSY} and closes it.
C20_AcceptPolicy ==
  [][/\ (last_op' = "accept" /\ client_socket' # NoSock)
          => call_state_ \in {"IDLE", "OUTGOING"}
     /\ (/\ ~client_mode_
         /\ call_state_ \in RefusingStates
         /\ backlog # <<>>
         /\ last_op' \in RecvOps \cup {"accept"})
          => /\ \E i \in Pos("send", "ERROR") :
                  trace'[i].r = "BUSY" /\ trace'[i].fd = Head(backlog)
             /\ \E i \in Pos("close", "") : trace'[i].fd = Head(backlog)
             /\ backlog' = Tail(backlog)]_vars

\* the end events a step emitted
EndsOf(a, r) == {i \in Pos("end", a) : trace'[i].r = r}
AllEnds == {i \in 1..Len(trace') : trace'[i].k = "end"}

\* C21: when recv on the peer socket reports peer-closed, or a send to the peer
\* returns a hard error during a call, the endpoint stops audio, closes the
\* socket and moves to Idle with reason RemoteHangup; if the FSM is already
\* Idle no end event is emitted.
C21_DisconnectDetection ==
  [][(last_op' \in {"recv_fail", "tx_send_error"})
       => /\ client_socket' = NoSock
          /\ ~client_streaming'
          /\ ~active_' /\ ~mic_running' /\ ~spk_running'
          /\ call_state_' = "IDLE"
          /\ IF call_state_ = "IDLE" THEN AllEnds = {}
             ELSE AllEnds = EndsOf("hangup", "remote_hangup") /\ Cardinality(AllEnds) = 1]_vars

\* C22: a frame header that announces a payload longer than the receive buffer
\* allows makes the endpoint close the peer and end the call with a CallFailed
\* event whose reason is ProtocolError, not with a Hangup.
C22_OversizeProtocolError ==
  [][(last_op' = "recv_oversize")
       => /\ client_socket' = NoSock
          /\ \E i \in Pos("close", "") : trace'[i].fd = client_socket
          /\ call_state_ # "IDLE"
               => /\ call_state_' = "IDLE"
                  /\ AllEnds = EndsOf("call_failed", "protocol_error")
                  /\ Cardinality(AllEnds) = 1]_vars

\* C23: when a dialed peer answers the endpoint's call with ERROR{BUSY}, the
\* call ends with a CallFailed event whose reason is Busy.
C23_BusyFailsCall ==
  [][(last_op' = "recv_ERROR" /\ client_mode_ /\ call_state_ = "OUTGOING")
       => /\ call_state_' = "IDLE"
          /\ AllEnds = EndsOf("call_failed", "busy")
          /\ Cardinality(AllEnds) = 1]_vars

\* C24: every entry of CallState into Streaming resets the mic ring, the
\* speaker ring and the AEC accumulator, so that nothing buffered during a
\* previous call is played or transmitted in the new one.
C24_StreamingEntryResets ==
  [][(call_state_ # "STREAMING" /\ call_state_' = "STREAMING")
       => \E s \in Pos("trigger", "streaming") :
            /\ \E i \in Pos("reset", "mic_buffer") : i < s
            /\ \E i \in Pos("reset", "speaker_buffer") : i < s
            /\ \E i \in Pos("reset", "aec") : i < s]_vars

\* C28: a PING is sent only when a peer is connected, the connection is not
\* Streaming and more than PING_INTERVAL_MS has elapsed since last_ping, which
\* the send brings up to date; every PING received on a connected session is
\* answered with PONG on that session.
C28_KeepAlive ==
  [][/\ \A i \in Pos("send", "PING") :
          /\ client_socket' >= 0
          /\ trace'[i].fd = client_socket'
          /\ state_' # "STREAMING"
          /\ USub(now, last_ping) > PingInterval
          /\ last_ping' = now
          /\ i = Len(trace')
     /\ last_op' = "recv_PING"
          => \E i \in Pos("send", "PONG") : trace'[i].fd = client_socket]_vars

\* C28 witness: an idle iteration of the net task has sent the keep-alive on a
\* Connected session.
C28_Witness ==
  /\ last_op = "net_idle"
  /\ state_ = "CONNECTED"
  /\ client_socket >= 0
  /\ last_ping = now
  /\ \E i \in 1..Len(trace) : trace[i].k = "send" /\ trace[i].a = "PING"

\* the descriptors taken out of client_.socket by a task that has not closed them yet
Held == {t_sock[t] : t \in {u \in Tasks : At(u, "cl_close")}}

\* C25: in every reachable state at most one peer socket is installed and open:
\* the installed descriptor is open, accept or connect installs a descriptor
\* only when none is installed, and every other descriptor that was opened
\* (rejected, failed, or taken out of the session) is closed or in the hands of
\* the task that is closing it.
C25_OneSession ==
  [][/\ client_socket' # NoSock => client_socket' \in open_fds'
     /\ open_fds' \subseteq ({client_socket'} \cup Held')
     /\ (client_socket' # client_socket /\ client_socket' # NoSock)
          => client_socket = NoSock /\ client_socket' \notin open_fds]_vars

\* C25 witness: a new session is installed while the descriptor of the previous
\* one is still waiting to be closed by the task that took it out.
C25_Witness ==
  /\ client_socket >= 0
  /\ Held # {}
  /\ client_socket \notin Held
  /\ open_fds = {client_socket} \cup Held

\* a task that is inside a teardown and has done its exchange on client_.socket
Past(t) == pc[t] # <<>> /\ \A i \in 1..Len(pc[t]) : pc[t][i] \notin {"cl_flag", "cl_xchg"}

\* C26: when several tasks run close_client_socket_ concurrently, each open
\* descriptor is shut down and closed by exactly one of them: the exchange
\* hands the old descriptor to a single task, which closes a descriptor that is
\* still open and no longer installed.
C26_OneCloser ==
  /\ \A c1, c2 \in closers : c1[2] = c2[2] => c1 = c2
  /\ \A t \in Tasks : At(t, "cl_close") => t_sock[t] \in open_fds /\ t_sock[t] # client_socket
  /\ \A t1, t2 \in Tasks :
       (t1 # t2 /\ At(t1, "cl_close") /\ At(t2, "cl_close")) => t_sock[t1] # t_sock[t2]
  /\ (\A t \in Tasks : Past(t) /\ ~At(t, "cl_close")) => open_fds \subseteq {client_socket}

\* C26 witness: the control task and the net task are both past the exchange of
\* their teardown, and the descriptor has been closed once.
C26_Witness ==
  /\ Past("ctl") /\ Past("net")
  /\ ~At("ctl", "cl_close") /\ ~At("net", "cl_close")
  /\ open_fds = {}
  /\ Cardinality(closers) = 1

\* the frame the peer sent fits the caller's buffer
RxValid == ~too_large(rx.sent.length, RxBufferSize)

\* the state of a call of receive_message_ that has returned
RxReturned ==
  /\ rx.result = "true" =>
       /\ RxValid
       /\ rx.header = rx.sent
       /\ \A i \in 1..HEADER_SIZE : rx.buffer[i] = EncodeHeader(rx.sent)[i]
       /\ \A i \in 1..rx.sent.length : rx.buffer[HEADER_SIZE + i] = PayloadOf(rx.sent.length)[i]
       /\ rx.pos = HEADER_SIZE + rx.sent.length
  /\ rx.result = "false" =>
       \/ rx.cause = "closed"
       \/ rx.cause = "incomplete" /\ rx.retry = MAX_RETRY
       \/ rx.cause = "too_large" /\ ~RxValid

\* C27: receive_message_ reconstructs a valid frame delivered in any
\* segmentation, down to one byte per segment: every recv asks for exactly the
\* bytes still missing, every byte of progress resets the retry budget, and
\* the call returns true with the header and payload exactly as sent, having
\* read nothing of the next frame; on an open connection it returns false for
\* a valid frame only after MAX_RETRY would-block results in a row.
C27_Reassembly ==
  [][/\ RxReturned'
     /\ rx'.pos > rx.pos => rx'.retry = 0
     /\ rx'.pos <= HEADER_SIZE + rx'.header.length \/ rx'.at = "header"
     /\ rx'.at = "header" => rx'.pos = rx'.header_read /\ rx'.pos <= HEADER_SIZE
     /\ rx'.at = "payload" => rx'.pos = HEADER_SIZE + rx'.payload_read]_vars

\* C27 witness: a frame with the largest payload has been returned after
\* arriving one byte per recv, with waits in between.
C27_Witness ==
  /\ rx.at = "done"
  /\ rx.result = "true"
  /\ rx.sent.length = RxPayloadMax
  /\ rx.reads = HEADER_SIZE + RxPayloadMax
  /\ rx.waited

\* C29: the wrappers of the shared I2S bus are reference counted: once every
\* start() of a wrapper has been matched by a stop(), the wrapper eventually
\* reaches STOPPED (unless a listener starts it again), for every interleaving
\* of start(), stop(), play() and loop().
C29_RefCounted ==
  \A w \in Wrappers :
    (dx.listeners[w] = 0) ~> (dx.state[w] = "STOPPED" \/ dx.listeners[w] > 0)

\* the mic samples of the frames handed to the kernel, one after the other
RECURSIVE Flat(_)
Flat(cs) == IF cs = <<>> THEN <<>> ELSE Head(cs).mic_frame \o Flat(Tail(cs))

\* the calls of the kernel, each with the first frame_size samples of aec_mic_
KernelCalls ==
  [i \in 1..Len(aec.calls) |->
     [mic_frame |-> [j \in 1..aec.calls[i].frame_size |-> aec.calls[i].mic[j]]]]

\* what the accumulator holds
Held30 == [j \in 1..AecMin(aec.aec_mic_fill_, aec.frame_samples) |-> aec.aec_mic_[j]]

\* C30: with AEC enabled the kernel is invoked only when the accumulator holds
\* exactly frame_samples samples, with a reference frame of the same length,
\* and the mic samples passed over successive invocations, followed by what
\* the accumulator holds, are exactly the captured samples in order, none lost
\* or duplicated; each invocation made while the session is up emits one
\* AUDIO frame of frame_samples * 2 bytes.
C30_FrameAccumulation ==
  aec.at # "off" =>
    /\ ~aec.overflow
    /\ aec.at = "on"
    /\ aec.aec_mic_fill_ < aec.frame_samples
    /\ \A i \in 1..Len(aec.calls) :
         /\ aec.calls[i].fill = aec.frame_samples
         /\ aec.calls[i].ref_samples = aec.calls[i].frame_size
         /\ aec.calls[i].length = aec.frame_samples * 2
    /\ Flat(KernelCalls) \o Held30 = [k \in 1..(aec.next - aec.base) |-> aec.base + k]

\* C31: once the reference ring has been seeded at call start, it holds at
\* least the configured delay for the rest of the call, whatever the order of
\* the playback task's writes and the TX task's reads.
C31_ReferenceDelayKept ==
  (rf.at = "on" /\ rf.seeded) => Len(rf.ring) >= RefDelay

\* C32: with AEC enabled, what the playback task has appended to the reference
\* ring during a call is exactly what it has submitted to the sink, scaled by
\* the volume, in the order of submission.
C32_ReferenceFollowsSink ==
  rf.at = "on" => rf.appended = rf.submitted

\* the operations that do not run on the net task: the commands and loop() on
\* the main loop, the TX task, and the environment
OffNetOps ==
  {"start", "stop", "answer_call", "decline_call", "connect_to", "disconnect",
   "loop", "tx_send", "tx_send_error", "tick", "peer_connect"}

\* C33 as stated: no operation outside the net task changes last_ping,
\* ringing_start or outgoing_start.
C33_OnlyNetTaskStamps ==
  [][(last_op' \in OffNetOps) => UNCHANGED Stamps]_vars

\* C33: last_ping and ringing_start are changed only by the net task; of the
\* operations outside the net task only start() (also reached through
\* connect_to()) changes outgoing_start, setting it to now when it places a
\* call from Idle.
C33_StampWriters ==
  [][(last_op' \in OffNetOps)
       => /\ last_ping' = last_ping
          /\ ringing_start_time_' = ringing_start_time_
          /\ outgoing_start_time_' # outgoing_start_time_
               => /\ last_op' \in {"start", "connect_to"}
                  /\ call_state_ = "IDLE"
                  /\ outgoing_start_time_' = now]_vars

\* C33 witness: start() has placed a call and stamped it, after a session
\* whose keep-alive stamp and whose ringing stamp are still in place.
C33_Witness ==
  /\ last_op = "start"
  /\ call_state_ = "OUTGOING"
  /\ outgoing_start_time_ = now
  /\ now > 1
  /\ last_ping = 1
  /\ ringing_start_time_ = 1

\* C34: whenever no handler is part-way through and no peer socket exists,
\* CallState is Idle or Outgoing.
C34_NoCallWithoutPeer ==
  ((\A t \in Tasks : pc[t] = <<>>) /\ client_socket = NoSock)
    => call_state_ \in {"IDLE", "OUTGOING"}

\* C35: a task that has loaded the descriptor and is about to call send on it
\* holds a descriptor that has not been closed.
C35_NoUseAfterClose ==
  tx.at = "send" => tx.sock \in open_fds

\* C36: whenever no handler is part-way through and CallState is Idle, the
\* active flag is false and the microphone and the speaker are stopped.
C36_IdleReleasesAudio ==
  ((\A t \in Tasks : pc[t] = <<>>) /\ call_state_ = "IDLE")
    => (~active_ /\ ~mic_running /\ ~spk_running)

\* C37: a START frame received while CallState is Ringing, Answering or
\* Streaming leaves CallState unchanged and resets no audio ring.
C37_StartDuringCallIgnored ==
  [][(last_op' \in {"recv_START", "recv_START_NO_RING"}
        /\ call_state_ \in {"RINGING", "ANSWERING", "STREAMING"})
       => /\ call_state_' = call_state_
          /\ Pos("reset", "mic_buffer") = {}
          /\ Pos("reset", "speaker_buffer") = {}
          /\ Pos("reset", "aec") = {}
          /\ Pos("trigger", "ringing") = {}]_vars

\* the frames no task is still sending
Finished(f) == \A t \in Tasks : ~(send_mutex_ = t /\ frame[t] = f)

\* C38: every frame that has bytes on the wire and that no task is still
\* sending is there whole, up to the last byte its header announces.
C38_WholeFrames ==
  \A i \in 1..Len(wire) :
    Finished(wire[i][1])
      => \E j \in 1..Len(wire) : wire[j][1] = wire[i][1] /\ wire[j][2] = wire[i][3]

\* C39: when set_active_(false) posts a stop request and no other task is
\* waiting for the semaphore, the semaphore is empty; a signal present at that
\* point was given for an earlier request, and it is what this request's
\* xSemaphoreTake obtains at once.
C39_NoLeftoverSignal ==
  [][\A t \in Tasks :
       (/\ At(t, "sa_xchg") /\ active_ /\ ~active_'
        /\ \A u \in Tasks \ {t} : ~At(u, "sa_wait"))
         => speaker_stopped_sem_ = 0]_vars

\* C40: for every accepted frame size the fill level of the mic accumulator
\* never exceeds frame_samples, and no copy into it writes past its end.
C40_AccumulatorInBounds ==
  aec.at # "off" => (aec.aec_mic_fill_ <= aec.frame_samples /\ ~aec.overflow)
====
